---- MODULE Spec2Model ----
(***************************************************************************)
(* Verification model of the BTC prediction bot.                           *)
(*                                                                         *)
(*   SpecArb  : the arbitrage scanner loop (core/arb_scanner.py) with the  *)
(*              order-execution collaborator (core/polymarket_client.py)   *)
(*   SpecRisk : the Risk Governor (core/risk_manager.py)                   *)
(*   SpecOracle : the price oracle (oracles/price_feed.py)                 *)
(*   SpecFeeds : one get_price over every combination of feed outcomes     *)
(*   SpecBot  : the two loops of the process and its shutdown (bot.py,     *)
(*              ArbScanner.run), each tick reduced to its awaits           *)
(*   SpecTrades : the trade records of the order client through steps 6-8  *)
(*              of the directional cycle: hedge check, order, resolutions  *)
(* Each specification keeps the other component as constructed.            *)
(*                                                                         *)
(* Units.  Clock values are seconds, as returned by time.time().  Prices   *)
(* are integer cents of the code's float prices (0.45 -> 45), so that      *)
(* edge_pct = (1.0 - combined) * 100 is 100 - combined.  Money is whole    *)
(* dollars.  Float rounding error is not modelled.                         *)
(***************************************************************************)
EXTENDS Integers, Sequences, FiniteSets, TLC

VARIABLES
    now,                \* time.time()
    \* ---- ArbScanner ----
    config,             \* ArbScannerConfig
    polymarket,         \* TRUE iff an execution collaborator was passed in
    creds_ok,           \* environment: can _init_clob_client succeed
    clob_initialized,   \* PolymarketClient._clob_initialized
    trade_records,      \* PolymarketClient._trade_records
    running,            \* ArbScanner._running
    pc,                 \* position of ArbScanner.run
    known_markets,      \* ArbScanner._known_markets (insertion-ordered dict)
    expired_markets,    \* ArbScanner._expired_markets
    executions,         \* ArbScanner._executions
    cooldowns,          \* ArbScanner._cooldowns
    daily_trades,       \* ArbScanner._daily_trades
    daily_spent,        \* ArbScanner._daily_spent
    daily_profit,       \* ArbScanner._daily_profit (cents)
    day_start,          \* ArbScanner._day_start
    scan_count,         \* ArbScanner._scan_count
    last_discovery,     \* ArbScanner._last_discovery
    best_edge_seen,     \* ArbScanner._best_edge_seen
    near_misses,        \* ArbScanner._near_misses
    opps,               \* run(): the opportunities of this tick not yet visited
    \* ---- observation of the scanner (not program state) ----
    order_log,          \* every place_order call the scanner made
    tick_obs,           \* what detection returned at this tick
    merged,             \* every condition id ever put into _known_markets
    last_exec,          \* what the last _execute_arb call did
    \* ---- RiskManager ----
    risk_config,        \* RiskConfig
    capital,            \* RiskManager.capital
    daily,              \* RiskManager._daily (DailyStats)
    total_pnl,          \* RiskManager._total_pnl
    \* ---- observation of the Risk Governor (not program state) ----
    last_call,          \* the last governor operation: its result and what it saw
    resets,             \* how often _reset_daily_if_needed replaced _daily
    recorded,           \* how many outcomes record_trade has taken
    date_changes,       \* how often the calendar date changed since construction
    \* ---- OracleEngine ----
    oracle_config,      \* OracleConfig
    last_prices,        \* OracleEngine._last_prices (insertion-ordered dict)
    price_history,      \* OracleEngine._price_history
    window_anchor,      \* OracleEngine._window_anchor, <<>> for None
    captures,           \* the capture_window_open call of each task
    \* ---- observation of the oracle (not program state) ----
    anchors_made,       \* every WindowAnchor ever created
    fetches,            \* get_price calls begun
    last_get,           \* the last get_price: what it read and what it did
    \* ---- the process: BTCPredictionBot.run, main, ArbScanner.run ----
    mode,               \* how main was started: --arb-only, --arb or neither
    main,               \* the main task: bot.running, its position, the cycle
    scan,               \* the scanner task: _running, its position, the tick
    sessions,           \* the aiohttp session of each component
    in_entry_window,    \* BTCPredictionBot._is_in_entry_window()
    stop_requested,     \* SIGINT was delivered
    \* ---- observation of the process (not program state) ----
    seen,               \* what the loops did after the stop request and per window
    \* ---- PolymarketClient markets and EdgeEngine ----
    active_markets,     \* PolymarketClient._active_markets
    hedged_trades,      \* EdgeEngine._hedged_trades
    hedge_enabled,      \* EdgeEngine.hedge_enabled
    \* ---- observation of the trade records (not program state) ----
    trade_cycles,       \* cycles that reached market discovery
    trade_seen,         \* what the hedge checks and resolution checks did
    hedge_call,         \* one check_hedge call: what it was given and returned
    \* ---- StrategyEngine ----
    strategy_config,    \* StrategyConfig
    trade_history,      \* len(StrategyEngine._trade_history)
    \* ---- observation of the strategy engine (not program state) ----
    analyze_args,       \* what the analyze call is given
    decision,           \* what analyze returned
    cycle_obs           \* what the last _trading_cycle did

arbOther == <<config, polymarket, creds_ok, clob_initialized,
             running, pc, known_markets, expired_markets, executions,
             cooldowns, daily_trades, daily_spent, daily_profit, day_start,
             scan_count, last_discovery, best_edge_seen, near_misses, opps,
             order_log, tick_obs, merged, last_exec>>

arbVars == <<arbOther, trade_records>>

riskVars == <<risk_config, capital, daily, total_pnl, last_call, resets,
              recorded, date_changes>>

oracleVars == <<oracle_config, last_prices, price_history, window_anchor,
                captures, anchors_made, fetches, last_get>>

botVars == <<mode, main, scan, sessions, in_entry_window, stop_requested, seen>>

tradeVars == <<active_markets, hedged_trades, hedge_enabled, trade_cycles,
               trade_seen,
              hedge_call>>

stratVars == <<strategy_config, trade_history, analyze_args, decision,
               cycle_obs>>

restVars == <<botVars, tradeVars, stratVars>>

vars == <<now, arbVars, riskVars, oracleVars, restVars>>

----------------------------------------------------------------------------
(* Bounds of the model *)

NumMarkets == 2       \* condition ids 1..NumMarkets
MaxScans == 3         \* scan ticks per run
StartTime == 1000000  \* time.time() when the process starts
MaxRecorded == 3      \* outcomes handed to record_trade in a run
MaxClock == 4         \* clock steps in a run of the Risk Governor
MaxFetches == 2       \* get_price calls in a run of the oracle
MaxOracleClock == 3   \* clock steps in a run of the oracle
MaxTicks == 2         \* scan ticks in a run of the process
MaxBotCycles == 2     \* directional cycles in a run of the process
MaxTrades == 2        \* directional orders placed in a run of the cycle
MaxTradeCycles == 3   \* cycles that reach market discovery in a run

Cids == 1..NumMarkets

(* Program constants *)

DAY_SECS == 86400             \* _check_daily_reset
DISCOVERY_INTERVAL == 45      \* self._discovery_interval
NEAR_MISS_BAND == 2           \* arb_threshold + 0.02, in cents
NEAR_MISS_KEEP == 300         \* near-miss retention, seconds
MIN_ORDER_CENTS == 50         \* place_order: size_usd < 0.50

Max(a, b) == IF a >= b THEN a ELSE b
Min(a, b) == IF a <= b THEN a ELSE b

----------------------------------------------------------------------------
(* ArbScannerConfig.  The defaults are 8 s / 0.98 / 1.0 / 10 / 50 / 200 /  *)
(* 0 / 120 s; the configurations below keep the shape and make both        *)
(* ceilings, the edge floor, the liquidity floor and the daily window      *)
(* reachable in a few ticks.                                               *)

ArbScannerConfig(poll, thr, edge, size, trades, budget, liq, cd) ==
    [poll_interval_secs |-> poll, arb_threshold |-> thr, min_edge_pct |-> edge,
     size_per_side_usd |-> size, max_daily_arb_trades |-> trades,
     max_daily_arb_budget |-> budget, min_liquidity_usd |-> liq,
     cooldown_per_market_secs |-> cd]

Configs ==
    { ArbScannerConfig(30, 98, 1, 10, 1, 200, 0, 30),
      ArbScannerConfig(30, 98, 4, 10, 50, 50, 50, 60),
      ArbScannerConfig(50000, 98, 1, 10, 2, 40, 0, 120000) }

(* What the market-discovery collaborator can report for one market:       *)
(* prices in cents, liquidity, and where its endDate lies ("bad" is an     *)
(* unparseable endDate, for which end_ts is 0.0; "none": not listed).      *)
Quote(py, pn, liq) == [price_yes |-> py, price_no |-> pn, liquidity |-> liq]

Desc(py, pn, liq, ends) == [quote |-> Quote(py, pn, liq), ends |-> ends]

(* The responses of the collaborator the model draws from.  A response is  *)
(* a pattern of two descriptors, laid over the condition ids cyclically.   *)
Responses ==
    { <<Desc(45, 50, 100, "far"),  Desc(45, 50, 100, "far")>>,    \* equal edges
      <<Desc(47, 50, 100, "far"),  Desc(45, 50, 100, "far")>>,    \* edge 3 before edge 5
      <<Desc(45, 50, 0, "far"),    Desc(47, 50, 100, "far")>>,    \* illiquid, small edge
      <<Desc(48, 50, 100, "far"),  Desc(0, 0, 100, "far")>>,      \* at threshold, no price
      <<Desc(45, 50, 100, "soon"), Desc(45, 50, 100, "bad")>>,    \* expiring
      <<Desc(45, 50, 100, "far"),  Desc(0, 0, 0, "none")>>,       \* one market only
      <<Desc(0, 0, 0, "none"),     Desc(0, 0, 0, "none")>> }      \* empty page

(* the listed condition ids of a response with their descriptors *)
Listed(resp) ==
    LET d(c) == resp[((c - 1) % 2) + 1]
    IN [c \in { x \in Cids : d(x).ends # "none" } |-> d(c)]

EndTs(ends, t, cfg) ==
    CASE ends = "bad"  -> 0
      [] ends = "soon" -> t + cfg.poll_interval_secs
      [] OTHER         -> t + 10 * DAY_SECS

ArbMarket(cid, q, end, t) ==
    [condition_id |-> cid, price_yes |-> q.price_yes, price_no |-> q.price_no,
     liquidity |-> q.liquidity, end_ts |-> end, last_refreshed |-> t]

Combined(m) == m.price_yes + m.price_no

EdgePct(m) == IF Combined(m) < 100 THEN 100 - Combined(m) ELSE 0

TimeRemaining(m, t) == Max(0, m.end_ts - t)

----------------------------------------------------------------------------
(* Insertion-ordered dict keyed by condition_id, as a sequence of markets *)

RECURSIVE SeqFilterLive(_, _)
(* the markets of ms with time remaining at t, in order *)
SeqFilterLive(ms, t) ==
    IF ms = <<>> THEN <<>>
    ELSE IF TimeRemaining(Head(ms), t) <= 0 THEN SeqFilterLive(Tail(ms), t)
         ELSE <<Head(ms)>> \o SeqFilterLive(Tail(ms), t)

Ids(ms) == { ms[i].condition_id : i \in DOMAIN ms }

Get(ms, cid) == ms[CHOOSE i \in DOMAIN ms : ms[i].condition_id = cid]

(* d[m.condition_id] = m : in place when the key exists, appended otherwise *)
DictSet(ms, m) ==
    IF m.condition_id \in Ids(ms)
    THEN [i \in DOMAIN ms |-> IF ms[i].condition_id = m.condition_id THEN m ELSE ms[i]]
    ELSE Append(ms, m)

RECURSIVE DictSetAll(_, _)
DictSetAll(ms, new) ==
    IF new = <<>> THEN ms ELSE DictSetAll(DictSet(ms, Head(new)), Tail(new))

(* a prune that deletes the markets without time remaining *)
ArchiveDropped(exp, ms, t) == exp

(* the archive after moving every market of ms without time remaining at t *)
Archive(exp, ms, t) ==
    LET gone == { i \in DOMAIN ms : TimeRemaining(ms[i], t) <= 0 }
        ids  == { ms[i].condition_id : i \in gone }
    IN [c \in DOMAIN exp \cup ids |->
          IF c \in ids THEN Get(ms, c) ELSE exp[c]]

----------------------------------------------------------------------------
(* Opportunity detection: ArbScanner._find_opportunities *)

(* mutant: the cooldown is measured against the poll interval *)
InCooldownPoll(cd, cid, t, cfg) ==
    LET last_arb == IF cid \in DOMAIN cd THEN cd[cid] ELSE 0
    IN t - last_arb < cfg.poll_interval_secs

(* self._cooldowns.get(m.condition_id, 0), then now - last_arb < cooldown *)
InCooldown(cd, cid, t, cfg) ==
    LET last_arb == IF cid \in DOMAIN cd THEN cd[cid] ELSE 0
    IN t - last_arb < cfg.cooldown_per_market_secs

(* the checks up to and including the edge floor: a market that passes     *)
(* them updates _best_edge_seen                                            *)
PassesEdge(m, t, cfg) ==
    /\ ~(Combined(m) = 0)
    /\ ~(TimeRemaining(m, t) <= 0)
    /\ ~(Combined(m) >= cfg.arb_threshold)
    /\ ~(EdgePct(m) < cfg.min_edge_pct)

(* mutant: the liquidity floor is not applied *)
QualifiesAnyLiquidity(m, t, cd, cfg) ==
    /\ PassesEdge(m, t, cfg)
    /\ ~InCooldown(cd, m.condition_id, t, cfg)

(* m reaches opps.append(m) *)
Qualifies(m, t, cd, cfg) ==
    /\ PassesEdge(m, t, cfg)
    /\ ~InCooldown(cd, m.condition_id, t, cfg)
    /\ ~(m.liquidity < cfg.min_liquidity_usd)

RECURSIVE FindOpportunities(_, _, _, _)
FindOpportunities(ms, t, cd, cfg) ==
    IF ms = <<>> THEN <<>>
    ELSE IF Qualifies(Head(ms), t, cd, cfg)
         THEN <<Head(ms)>> \o FindOpportunities(Tail(ms), t, cd, cfg)
         ELSE FindOpportunities(Tail(ms), t, cd, cfg)

RECURSIVE BestEdgeAfter(_, _, _, _)
BestEdgeAfter(ms, t, best, cfg) ==
    IF ms = <<>> THEN best
    ELSE BestEdgeAfter(Tail(ms), t,
            IF PassesEdge(Head(ms), t, cfg) /\ EdgePct(Head(ms)) > best
            THEN EdgePct(Head(ms)) ELSE best, cfg)

IsNearMiss(m, t, cfg) ==
    /\ ~(Combined(m) = 0)
    /\ ~(TimeRemaining(m, t) <= 0)
    /\ Combined(m) < cfg.arb_threshold + NEAR_MISS_BAND
    /\ Combined(m) >= cfg.arb_threshold

RECURSIVE KeepRecent(_, _)
KeepRecent(nm, t) ==
    IF nm = <<>> THEN <<>>
    ELSE IF t - Head(nm).time < NEAR_MISS_KEEP
         THEN <<Head(nm)>> \o KeepRecent(Tail(nm), t)
         ELSE KeepRecent(Tail(nm), t)

RECURSIVE NearMissesAfter(_, _, _, _)
NearMissesAfter(ms, t, nm, cfg) ==
    IF ms = <<>> THEN nm
    ELSE NearMissesAfter(Tail(ms), t,
            IF IsNearMiss(Head(ms), t, cfg)
            THEN Append(KeepRecent(nm, t),
                        [time |-> t, condition_id |-> Head(ms).condition_id,
                         combined |-> Combined(Head(ms))])
            ELSE nm, cfg)

(* opps.sort(key=lambda m: m.edge_pct, reverse=True): stable, so markets   *)
(* of equal edge keep their order                                          *)
RECURSIVE InsertByEdge(_, _)
InsertByEdge(sorted, m) ==
    IF sorted = <<>> THEN <<m>>
    ELSE IF EdgePct(Head(sorted)) >= EdgePct(m)
         THEN <<Head(sorted)>> \o InsertByEdge(Tail(sorted), m)
         ELSE <<m>> \o sorted

RECURSIVE SortByEdgeFrom(_, _)
SortByEdgeFrom(sorted, ms) ==
    IF ms = <<>> THEN sorted
    ELSE SortByEdgeFrom(InsertByEdge(sorted, Head(ms)), Tail(ms))

(* opportunities attempted in the order detection found them *)
SortByDiscovery(ms) == ms

SortByEdge(ms) == SortByEdgeFrom(<<>>, ms)

----------------------------------------------------------------------------
(* Order execution: PolymarketClient.place_order, as seen by its caller    *)

(* what one place_order call can do: return a TradeRecord ("trade"),       *)
(* return None ("none") or raise out of _init_clob_client ("raise")        *)
PlaceOrderResults(size_usd, initialized, creds) ==
    IF size_usd * 100 < MIN_ORDER_CENTS THEN {"none"}
    ELSE IF ~initialized /\ ~creds THEN {"raise"}
    ELSE {"trade", "none"}

(* _clob_initialized after a call that did not raise *)
InitializedAfter(size_usd, initialized, creds) ==
    initialized \/ (size_usd * 100 >= MIN_ORDER_CENTS /\ creds)

(* the two calls of one attempt: the second is not reached when the first  *)
(* raises (one try block around both)                                      *)
PairResults(size_usd, initialized, creds) ==
    { <<y, n>> \in {"trade", "none", "raise"} \X {"trade", "none", "raise", "not_called"} :
        /\ y \in PlaceOrderResults(size_usd, initialized, creds)
        /\ IF y = "raise" THEN n = "not_called"
           ELSE n \in PlaceOrderResults(size_usd,
                        InitializedAfter(size_usd, initialized, creds), creds) }

TradeRecord(id, cid, direction, size_usd) ==
    [trade_id |-> id, market_condition_id |-> cid, direction |-> direction,
     size_usd |-> size_usd, entry_price |-> 50, outcome |-> "null",
     pnl |-> 0]

(* self._trade_records after the two calls *)
RecordsAfter(recs, cid, size_usd, y, n) ==
    LET r1 == IF y = "trade"
              THEN Append(recs, TradeRecord(Len(recs) + 1, cid, "up", size_usd))
              ELSE recs
    IN IF n = "trade"
       THEN Append(r1, TradeRecord(Len(r1) + 1, cid, "down", size_usd))
       ELSE r1

----------------------------------------------------------------------------
(* Execution: ArbScanner._execute_arb *)

(* mutant: the budget test forgets the cost of the attempt being made *)
CeilingBlockedNoCost(trades, spent, cfg) ==
    \/ trades >= cfg.max_daily_arb_trades
    \/ spent > cfg.max_daily_arb_budget

(* the two early returns *)
CeilingBlocked(trades, spent, cfg) ==
    \/ trades >= cfg.max_daily_arb_trades
    \/ spent + cfg.size_per_side_usd * 2 > cfg.max_daily_arb_budget

(* mutant: one confirmation is enough for "filled" *)
CompositeStatusEither(y, n) ==
    IF y = "raise" \/ n = "raise" THEN "failed"
    ELSE IF y = "trade" \/ n = "trade" THEN "filled"
    ELSE "failed"

(* execution.status once both calls are over *)
CompositeStatus(y, n) ==
    IF y = "raise" \/ n = "raise" THEN "failed"
    ELSE IF y = "trade" /\ n = "trade" THEN "filled"
    ELSE IF y = "trade" \/ n = "trade" THEN "partial"
    ELSE "failed"

(* size * (1.0 / combined - 1.0), in cents *)
Profit(m, cfg) ==
    (cfg.size_per_side_usd * 100 * (100 - Combined(m))) \div Combined(m)

ArbExecution(t, m, cfg, oy, on, status) ==
    [timestamp |-> t, condition_id |-> m.condition_id,
     price_yes |-> m.price_yes, price_no |-> m.price_no,
     combined |-> Combined(m), edge_pct |-> EdgePct(m),
     size_per_side |-> cfg.size_per_side_usd,
     guaranteed_profit |-> Profit(m, cfg),
     order_id_yes |-> oy, order_id_no |-> on, status |-> status]

(* the four assignments after the orders, made whatever the status *)
TradesAfter(trades, status) == trades + 1

(* mutant: a failed attempt gives its budget back *)
SpentAfterRefund(spent, cfg, status) ==
    IF status = "failed" THEN spent ELSE spent + cfg.size_per_side_usd * 2

SpentAfter(spent, cfg, status) == spent + cfg.size_per_side_usd * 2

CooldownsAfter(cd, cid, t) ==
    [c \in DOMAIN cd \cup {cid} |-> IF c = cid THEN t ELSE cd[c]]

ProfitAfter(profit, m, cfg, status) ==
    IF status \in {"filled", "dry_run"} THEN profit + Profit(m, cfg) ELSE profit

(* mutant: the budget break compares the wrong way round *)
LoopBreaksInverted(trades, spent, cfg) ==
    \/ trades >= cfg.max_daily_arb_trades
    \/ spent <= cfg.max_daily_arb_budget

(* run(): the two breaks after each _execute_arb *)
LoopBreaks(trades, spent, cfg) ==
    \/ trades >= cfg.max_daily_arb_trades
    \/ spent >= cfg.max_daily_arb_budget

----------------------------------------------------------------------------
(* Daily reset, discovery and refresh *)

(* a reset aligned to the calendar day instead of the loop's own window *)
CheckDailyResetCalendar(t) ==
    IF t \div DAY_SECS # day_start \div DAY_SECS
    THEN [trades |-> 0, spent |-> 0, profit |-> 0, day_start |-> t,
          best |-> 0, near |-> <<>>]
    ELSE [trades |-> daily_trades, spent |-> daily_spent, profit |-> daily_profit,
          day_start |-> day_start, best |-> best_edge_seen, near |-> near_misses]

(* a reset that zeroes the trade count but keeps the spend *)
CheckDailyResetKeepsSpent(t) ==
    IF t - day_start > DAY_SECS
    THEN [trades |-> 0, spent |-> daily_spent, profit |-> 0, day_start |-> t,
          best |-> 0, near |-> <<>>]
    ELSE [trades |-> daily_trades, spent |-> daily_spent, profit |-> daily_profit,
          day_start |-> day_start, best |-> best_edge_seen, near |-> near_misses]

(* ArbScanner._check_daily_reset on the daily counters *)
CheckDailyReset(t) ==
    IF t - day_start > DAY_SECS
    THEN [trades |-> 0, spent |-> 0, profit |-> 0, day_start |-> t,
          best |-> 0, near |-> <<>>]
    ELSE [trades |-> daily_trades, spent |-> daily_spent, profit |-> daily_profit,
          day_start |-> day_start, best |-> best_edge_seen, near |-> near_misses]

RECURSIVE SeqOfSet(_)
(* the condition ids of S in increasing order *)
SeqOfSet(S) ==
    IF S = {} THEN <<>>
    ELSE LET c == CHOOSE x \in S : \A y \in S : x <= y
         IN <<c>> \o SeqOfSet(S \ {c})

(* the ArbMarket list built from one listing: found maps the listed        *)
(* condition ids to their descriptors                                      *)
Listing(found, t, cfg) ==
    LET ids == SeqOfSet(DOMAIN found)
    IN [i \in DOMAIN ids |->
          ArbMarket(ids[i], found[ids[i]].quote,
                    EndTs(found[ids[i]].ends, t, cfg), t)]

(* ArbScanner._discover_markets after a listing that did not raise: t is   *)
(* the time at entry, t1 the time once the pages are in                    *)
Discovered(known, exp, found, t, t1, cfg) ==
    [known   |-> DictSetAll(SeqFilterLive(known, t1), Listing(found, t, cfg)),
     expired |-> Archive(exp, known, t1),
     last_discovery |-> t]

(* ArbScanner._refresh_prices: upd maps the condition ids whose request    *)
(* succeeded to what it returned                                           *)
RefreshPrices(known, upd, t, cfg) ==
    [i \in DOMAIN known |->
        LET m == known[i] IN
        IF (t - m.last_refreshed) * 10 < cfg.poll_interval_secs * 8 THEN m
        ELSE IF TimeRemaining(m, t) <= 0 THEN m
        ELSE IF m.condition_id \in DOMAIN upd
             THEN [m EXCEPT !.price_yes = upd[m.condition_id].quote.price_yes,
                            !.price_no = upd[m.condition_id].quote.price_no,
                            !.liquidity = upd[m.condition_id].quote.liquidity,
                            !.last_refreshed = t]
             ELSE m]

----------------------------------------------------------------------------
(* Risk Governor: core/risk_manager.py                                     *)
(* Money is whole dollars, percentages are whole percents; a position size *)
(* is in cents (round(size, 2)).                                           *)

(* RiskConfig; the four limits vary, the sizing parameters are the         *)
(* defaults (kelly_fraction 0.25 is 25 percent)                            *)
RiskConfig(trades, loss_pct, streak, mins) ==
    [max_trade_pct |-> 5,
     max_daily_trades |-> trades,
     max_daily_loss_pct |-> loss_pct,
     max_consecutive_losses |-> streak,
     loss_streak_cooldown_mins |-> mins,
     kelly_fraction |-> 25,
     min_trade_size_usd |-> 1,
     max_trade_size_usd |-> 25]

RiskConfigs == {RiskConfig(3, 15, 2, 720), RiskConfig(3, 30, 1, 1440)}

(* bankroll passed to RiskManager(config, capital) *)
Bankrolls == {100, 20}

(* outcomes handed to record_trade *)
Pnls == {-20, -1, 0, 5}

(* confidences handed to calculate_position_size, in percent *)
Confidences == {40, 50, 55, 60, 90}

(* RiskManager._today: the calendar date, as a day number *)
Today(t) == t \div DAY_SECS

(* DailyStats(date=...) with its defaults *)
DailyStats(date) ==
    [date |-> date, trades |-> 0, wins |-> 0, losses |-> 0, total_pnl |-> 0,
     consecutive_losses |-> 0, last_trade_time |-> 0, cooldown_until |-> 0]

(* RiskManager._reset_daily_if_needed *)
ResetNever(d, t) == d

ResetKeepsStreak(d, t) ==
    IF d.date # Today(t)
    THEN [DailyStats(Today(t)) EXCEPT
              !.consecutive_losses = d.consecutive_losses,
              !.cooldown_until = d.cooldown_until]
    ELSE d

ResetDailyIfNeeded(d, t) ==
    IF d.date # Today(t) THEN DailyStats(Today(t)) ELSE d

(* 1 when _reset_daily_if_needed replaces the record, else 0 *)
ResetCount(d, t) == IF ResetDailyIfNeeded(d, t) # d THEN 1 ELSE 0

(* abs(min(0, total_pnl)) / capital * 100 >= max_daily_loss_pct,           *)
(* cross-multiplied; evaluated only for capital > 0                        *)
DailyLossAtCap(d, cap, cfg) ==
    (0 - Min(0, d.total_pnl)) * 100 >= cfg.max_daily_loss_pct * cap

(* RiskManager.can_trade after the reset: the verdict, the reason, and the *)
(* record with the cooldown the streak check arms                          *)
CanTradeStreakFirst(d, cap, t, cfg) ==
    IF t < d.cooldown_until
    THEN [ok |-> FALSE, reason |-> "Cooldown", daily |-> d]
    ELSE IF d.consecutive_losses >= cfg.max_consecutive_losses
    THEN [ok |-> FALSE, reason |-> "Loss streak",
          daily |-> [d EXCEPT !.cooldown_until =
                                  t + cfg.loss_streak_cooldown_mins * 60]]
    ELSE IF d.trades >= cfg.max_daily_trades
    THEN [ok |-> FALSE, reason |-> "Daily limit", daily |-> d]
    ELSE IF cap > 0 /\ DailyLossAtCap(d, cap, cfg)
    THEN [ok |-> FALSE, reason |-> "Daily loss limit", daily |-> d]
    ELSE IF cap <= 0
    THEN [ok |-> FALSE, reason |-> "No capital", daily |-> d]
    ELSE [ok |-> TRUE, reason |-> "OK", daily |-> d]

(* a streak check that answers without arming the cooldown *)
CanTradeNoArm(d, cap, t, cfg) ==
    IF t < d.cooldown_until
    THEN [ok |-> FALSE, reason |-> "Cooldown", daily |-> d]
    ELSE IF d.trades >= cfg.max_daily_trades
    THEN [ok |-> FALSE, reason |-> "Daily limit", daily |-> d]
    ELSE IF cap > 0 /\ DailyLossAtCap(d, cap, cfg)
    THEN [ok |-> FALSE, reason |-> "Daily loss limit", daily |-> d]
    ELSE IF d.consecutive_losses >= cfg.max_consecutive_losses
    THEN [ok |-> FALSE, reason |-> "Loss streak", daily |-> d]
    ELSE IF cap <= 0
    THEN [ok |-> FALSE, reason |-> "No capital", daily |-> d]
    ELSE [ok |-> TRUE, reason |-> "OK", daily |-> d]

(* a cooldown check that starts the window again on every call inside it *)
CanTradeExtends(d, cap, t, cfg) ==
    IF t < d.cooldown_until
    THEN [ok |-> FALSE, reason |-> "Cooldown",
          daily |-> [d EXCEPT !.cooldown_until =
                                  t + cfg.loss_streak_cooldown_mins * 60]]
    ELSE IF d.trades >= cfg.max_daily_trades
    THEN [ok |-> FALSE, reason |-> "Daily limit", daily |-> d]
    ELSE IF cap > 0 /\ DailyLossAtCap(d, cap, cfg)
    THEN [ok |-> FALSE, reason |-> "Daily loss limit", daily |-> d]
    ELSE IF d.consecutive_losses >= cfg.max_consecutive_losses
    THEN [ok |-> FALSE, reason |-> "Loss streak",
          daily |-> [d EXCEPT !.cooldown_until =
                                  t + cfg.loss_streak_cooldown_mins * 60]]
    ELSE IF cap <= 0
    THEN [ok |-> FALSE, reason |-> "No capital", daily |-> d]
    ELSE [ok |-> TRUE, reason |-> "OK", daily |-> d]

CanTradeChecks(d, cap, t, cfg) ==
    IF t < d.cooldown_until
    THEN [ok |-> FALSE, reason |-> "Cooldown", daily |-> d]
    ELSE IF d.trades >= cfg.max_daily_trades
    THEN [ok |-> FALSE, reason |-> "Daily limit", daily |-> d]
    ELSE IF cap > 0 /\ DailyLossAtCap(d, cap, cfg)
    THEN [ok |-> FALSE, reason |-> "Daily loss limit", daily |-> d]
    ELSE IF d.consecutive_losses >= cfg.max_consecutive_losses
    THEN [ok |-> FALSE, reason |-> "Loss streak",
          daily |-> [d EXCEPT !.cooldown_until =
                                  t + cfg.loss_streak_cooldown_mins * 60]]
    ELSE IF cap <= 0
    THEN [ok |-> FALSE, reason |-> "No capital", daily |-> d]
    ELSE [ok |-> TRUE, reason |-> "OK", daily |-> d]

(* RiskManager.can_trade *)
CanTradeResult(d, cap, t, cfg) ==
    CanTradeChecks(ResetDailyIfNeeded(d, t), cap, t, cfg)

(* RiskManager.record_trade: self.capital += pnl, on a loss only *)
CapitalAfterAny(cap, pnl) == cap + pnl

CapitalAfter(cap, pnl) == IF pnl >= 0 THEN cap ELSE cap + pnl

(* RiskManager.record_trade: the daily record *)
RecordedDailyZeroLoses(d, pnl, t) ==
    LET r == ResetDailyIfNeeded(d, t)
        b == [r EXCEPT !.trades = @ + 1,
                       !.total_pnl = @ + pnl,
                       !.last_trade_time = t]
    IN IF pnl > 0
       THEN [b EXCEPT !.wins = @ + 1, !.consecutive_losses = 0]
       ELSE [b EXCEPT !.losses = @ + 1, !.consecutive_losses = @ + 1]

RecordedDaily(d, pnl, t) ==
    LET r == ResetDailyIfNeeded(d, t)
        b == [r EXCEPT !.trades = @ + 1,
                       !.total_pnl = @ + pnl,
                       !.last_trade_time = t]
    IN IF pnl >= 0
       THEN [b EXCEPT !.wins = @ + 1, !.consecutive_losses = 0]
       ELSE [b EXCEPT !.losses = @ + 1, !.consecutive_losses = @ + 1]

(* round(size, 2): ten-thousandths of a dollar to cents *)
RoundCents(x) == (x + 50) \div 100

(* RiskManager.calculate_position_size, confidence in percent; the         *)
(* intermediate sizes are in ten-thousandths of a dollar                   *)
CalculatePositionSizeAbsEdge(cap, conf, cfg) ==
    IF cap <= 0 THEN 0
    ELSE LET kelly == Max(2 * conf - 100, 100 - 2 * conf)
             raw   == cap * kelly * cfg.kelly_fraction
             s1    == Min(raw, cap * cfg.max_trade_pct * 100)
             s2    == Min(s1, cfg.max_trade_size_usd * 10000)
             s3    == Max(s2, cfg.min_trade_size_usd * 10000)
             s4    == Min(s3, cap * 10000)
         IN RoundCents(s4)

CalculatePositionSize(cap, conf, cfg) ==
    IF cap <= 0 THEN 0
    ELSE LET kelly == Max(0, 2 * conf - 100)
             raw   == cap * kelly * cfg.kelly_fraction
             s1    == Min(raw, cap * cfg.max_trade_pct * 100)
             s2    == Min(s1, cfg.max_trade_size_usd * 10000)
             s3    == Max(s2, cfg.min_trade_size_usd * 10000)
             s4    == Min(s3, cap * 10000)
         IN RoundCents(s4)

(* what a governor operation is observed to have done: its result and    *)
(* the state it was called in                                             *)
Call(op, res, pnl, size, t) ==
    [op |-> op, ok |-> res.ok, reason |-> res.reason, pnl |-> pnl,
     confidence |-> 0, size |-> size, time |-> t, seen |-> daily,
     seen_capital |-> capital, seen_total |-> total_pnl]

NoResult == [ok |-> FALSE, reason |-> ""]

NoCall ==
    [op |-> "none", ok |-> FALSE, reason |-> "", pnl |-> 0, confidence |-> 0,
     size |-> 0, time |-> 0, seen |-> DailyStats(0), seen_capital |-> 0, seen_total |-> 0]

(* RiskManager.__init__ *)
RiskConstructed(cfg, bankroll, t) ==
    /\ risk_config = cfg
    /\ capital = bankroll
    /\ daily = DailyStats(Today(t))
    /\ total_pnl = 0
    /\ last_call = NoCall
    /\ resets = 0
    /\ date_changes = 0
    /\ recorded = 0

----------------------------------------------------------------------------
(* Oracle: oracles/price_feed.py                                           *)
(* Prices are whole dollars; spread is in hundredths of a percent and      *)
(* confidence in percent.                                                  *)

WINDOW_SECS == 900            \* the 15-minute window of an anchor
CACHE_MAX_AGE == 60           \* pp.is_stale(60) in the cache fallback
MAX_DIVERGENCE_BP == 100      \* MAX_DIVERGENCE_PCT = 1.0

(* the feeds, in the order get_price gathers them *)
Sources == <<"chainlink", "binance", "coingecko">>

(* OracleConfig: the two fields get_price reads *)
OracleConfig(age, consensus) ==
    [max_price_age |-> age, min_oracle_consensus |-> consensus]

OracleConfigs == {OracleConfig(30, 2)}

(* the clock of the oracle runs starts half a minute before a window       *)
(* boundary                                                                *)
OracleStart == 1111 * WINDOW_SECS - 30

(* what a feed quotes for a reading timestamped ts: the feeds disagree     *)
(* and the price moves with time                                           *)
FeedPrice(source, ts) ==
    (CASE source = "chainlink" -> 60000
       [] source = "binance" -> 60020
       [] source = "coingecko" -> 61000)
    + 2 * (ts - OracleStart)

(* PricePoint *)
PricePoint(source, ts) ==
    [source |-> source, price |-> FeedPrice(source, ts), timestamp |-> ts]

(* what the three feeds answer to one gather: per feed, in the order of    *)
(* Sources, no reading (<<>>) or the age of its reading when the results   *)
(* are read; 40 is stale for max_price_age 30 and inside the cache bound   *)
FeedAnswers ==
    {<< <<0>>,  <<0>>, <<0>> >>,
     << <<>>,   <<0>>, <<0>> >>,
     << <<>>,   <<0>>, <<>>  >>,
     << <<0>>,  <<>>,  <<>>  >>,
     << <<40>>, <<0>>, <<>>  >>,
     << <<40>>, <<>>,  <<>>  >>,
     << <<>>,   <<>>,  <<>>  >>}

(* the results of asyncio.gather at time t *)
Gathered(t) ==
    {[i \in 1..3 |-> [j \in 1..Len(ans[i]) |->
                         PricePoint(Sources[i], t - ans[i][j])]] :
        ans \in FeedAnswers}

(* PricePoint.is_stale *)
IsStaleNever(pp, t, max_age) == FALSE

IsStale(pp, t, max_age) == t - pp.timestamp > max_age

(* the readings of the results, feed by feed *)
RECURSIVE Readings(_, _)
Readings(results, i) ==
    IF i > Len(results) THEN <<>>
    ELSE results[i] \o Readings(results, i + 1)

(* a sequence without the elements that fail a test *)
RECURSIVE FreshOf(_, _, _)
FreshOf(pps, t, cfg) ==
    IF pps = <<>> THEN <<>>
    ELSE (IF IsStale(Head(pps), t, cfg.max_price_age) THEN <<>> ELSE <<Head(pps)>>)
         \o FreshOf(Tail(pps), t, cfg)

(* self._last_prices[r.source] = r, on an insertion-ordered dict *)
CacheSet(cache, pp) ==
    IF \E i \in 1..Len(cache) : cache[i].source = pp.source
    THEN [i \in 1..Len(cache) |->
             IF cache[i].source = pp.source THEN pp ELSE cache[i]]
    ELSE Append(cache, pp)

RECURSIVE CacheSetAll(_, _)
CacheSetAll(cache, pps) ==
    IF pps = <<>> THEN cache
    ELSE CacheSetAll(CacheSet(cache, Head(pps)), Tail(pps))

(* is pp in valid *)
InSeq(pp, s) == \E i \in 1..Len(s) : s[i] = pp

(* the cache fallback: cached readings not stale at the looser bound and   *)
(* not in valid already, in the order of the dict                          *)
RECURSIVE CachedFor(_, _, _)
CachedFor(cache, valid, t) ==
    IF cache = <<>> THEN <<>>
    ELSE (IF ~IsStale(Head(cache), t, CACHE_MAX_AGE) /\ ~InSeq(Head(cache), valid)
          THEN <<Head(cache)>> ELSE <<>>)
         \o CachedFor(Tail(cache), valid, t)

(* valid, after the fallback *)
ValidAlways(fresh, cache, t, cfg) == fresh \o CachedFor(cache, fresh, t)

Valid(fresh, cache, t, cfg) ==
    IF Len(fresh) < cfg.min_oracle_consensus
    THEN fresh \o CachedFor(cache, fresh, t)
    ELSE fresh

(* chainlink_pp: the fresh chainlink reading, if there is one *)
ChainlinkOf(fresh) == SelectSeq(fresh, LAMBDA pp : pp.source = "chainlink")

(* statistics.median *)
RECURSIVE InsertSorted(_, _)
InsertSorted(x, s) ==
    IF s = <<>> THEN <<x>>
    ELSE IF x <= Head(s) THEN <<x>> \o s
    ELSE <<Head(s)>> \o InsertSorted(x, Tail(s))

RECURSIVE Sorted(_)
Sorted(s) == IF s = <<>> THEN <<>> ELSE InsertSorted(Head(s), Sorted(Tail(s)))

Median(s) ==
    LET o == Sorted(s)
        n == Len(o)
    IN IF n % 2 = 1 THEN o[(n + 1) \div 2]
       ELSE (o[n \div 2] + o[n \div 2 + 1]) \div 2

Prices(valid) == [i \in 1..Len(valid) |-> valid[i].price]

(* price selection: prefer Chainlink, then median *)
SelectMedianAlways(valid, cl) == Median(Prices(valid))

SelectPrice(valid, cl) ==
    IF cl # <<>> THEN cl[1].price ELSE Median(Prices(valid))

(* spread_pct, in hundredths of a percent *)
SpreadBp(valid, price) ==
    LET o == Sorted(Prices(valid))
    IN IF Len(o) > 1 THEN ((o[Len(o)] - o[1]) * 10000) \div price ELSE 0

(* confidence, in percent *)
OracleConfidence(valid, spread) ==
    IF spread > MAX_DIVERGENCE_BP
    THEN Max(20, 100 - spread \div 5)
    ELSE Min(100, (Len(valid) * 100) \div 3)

(* ConsensusPrice; chainlink_price is <<>> for None *)
ConsensusPrice(valid, cl, t) ==
    LET price == SelectPrice(valid, cl)
    IN [price |-> price,
        timestamp |-> t,
        sources |-> [i \in 1..Len(valid) |-> valid[i].source],
        spread_pct |-> SpreadBp(valid, price),
        confidence |-> OracleConfidence(valid, SpreadBp(valid, price)),
        chainlink_price |-> [i \in 1..Len(cl) |-> cl[i].price]]

(* a get_price that fails below the quorum of min_oracle_consensus *)
GetPriceQuorum(results, cache, t, cfg) ==
    LET fresh  == FreshOf(Readings(results, 1), t, cfg)
        cached == CacheSetAll(cache, fresh)
        valid  == Valid(fresh, cached, t, cfg)
        cl     == ChainlinkOf(fresh)
        short  == Len(valid) < cfg.min_oracle_consensus
    IN [raised |-> short,
        cache |-> cached,
        valid |-> IF short THEN <<>> ELSE valid,
        consensus |-> IF short THEN <<>>
                      ELSE <<ConsensusPrice(valid, cl, t)>>]

(* OracleEngine.get_price once the feeds have answered: the cache, the     *)
(* contributing readings and the consensus, or the failure                 *)
GetPrice(results, cache, t, cfg) ==
    LET fresh  == FreshOf(Readings(results, 1), t, cfg)
        cached == CacheSetAll(cache, fresh)
        valid  == Valid(fresh, cached, t, cfg)
        cl     == ChainlinkOf(fresh)
    IN [raised |-> valid = <<>>,
        cache |-> cached,
        valid |-> valid,
        consensus |-> IF valid = <<>> THEN <<>>
                      ELSE <<ConsensusPrice(valid, cl, t)>>]

(* OracleEngine._current_window_boundary *)
WindowBoundaryExact(t) == t

WindowBoundary(t) == t - (t % WINDOW_SECS)

(* WindowAnchor built by capture_window_open from a consensus *)
WindowAnchor(boundary, consensus, t) ==
    [boundary_time |-> boundary,
     open_price |-> IF consensus.chainlink_price # <<>>
                    THEN consensus.chainlink_price[1] ELSE consensus.price,
     source |-> IF consensus.chainlink_price # <<>>
                THEN "chainlink" ELSE consensus.sources[1],
     captured_at |-> t]

(* the two tasks that may call capture_window_open *)
Callers == {1, 2}

IdleCall ==
    [pc |-> "idle", order |-> 0, started |-> 0, made_before |-> 0,
     boundary |-> 0, fetched |-> FALSE, result |-> <<>>]

NoGet ==
    [time |-> 0, results |-> <<>>, cache_before |-> <<>>, history_before |-> <<>>,
     raised |-> FALSE, valid |-> <<>>, consensus |-> <<>>]

(* OracleEngine.__init__ *)
OracleConstructed(cfg) ==
    /\ oracle_config = cfg
    /\ last_prices = <<>>
    /\ price_history = <<>>
    /\ window_anchor = <<>>
    /\ captures = [p \in Callers |-> IdleCall]
    /\ anchors_made = <<>>
    /\ fetches = 0
    /\ last_get = NoGet

----------------------------------------------------------------------------
(* The process: the directional loop, the scanner task and shutdown *)

(* main's three ways to run: directional only, directional with the        *)
(* scanner as a task (--arb), the scanner alone (--arb-only)               *)
BotModes == {"directional", "directional_arb", "arb_only"}

(* the awaits of a directional cycle, in order: the oracle calls (steps    *)
(* 1-3), market discovery (step 6), the orders and resolutions (6b-8)      *)
CycleStages == <<"oracle", "markets", "orders">>

(* the awaits of a scan tick: discovery or refresh, then the executions *)
TickStages == <<"fetch", "execute">>

(* how a stage can end: it goes on, the tick returns early, or it raises *)
StageEnds == {"next", "return", "raise"}

(* _get_session: a session is created if there is none or it was closed *)
Opened(s, name) == [s EXCEPT ![name] = "open"]

(* close: an open session is closed *)
Closed(s, name) == IF s[name] = "open" THEN [s EXCEPT ![name] = "closed"] ELSE s

(* a scan tick ends without an error: on to the sleep *)
ScanDone(task) ==
    [task EXCEPT !.pc = "sleep", !.stage = "none", !.ended = "ok"]

(* an error that leaves the scanner's loop and ends its task *)
ScanUncaught(task, stage) ==
    [task EXCEPT !.pc = "dead", !.stage = "none", !.ended = "error",
                 !.failed = stage]

(* except Exception in ArbScanner.run: logged, on to the sleep *)
ScanCaught(task, stage) ==
    [task EXCEPT !.pc = "sleep", !.stage = "none", !.ended = "error",
                 !.failed = stage]

(* a loop that does not note that the window was used *)
CycleDoneUnflagged(m) ==
    [m EXCEPT !.pc = "sleep", !.stage = "none", !.ended = "ok"]

(* _trading_cycle returns (early or at its end): run sets                  *)
(* _traded_this_window and sleeps                                          *)
CycleDone(m) ==
    [m EXCEPT !.pc = "sleep", !.stage = "none", !.ended = "ok",
              !.traded_this_window = TRUE]

(* except Exception in _trading_cycle: logged, the cycle returns *)
CycleCaught(m, stage) ==
    [m EXCEPT !.pc = "sleep", !.stage = "none", !.ended = "error",
              !.failed = stage, !.traded_this_window = TRUE]

(* the stage after a stage, "none" after the last *)
StageAfter(stages, stage) ==
    LET i == CHOOSE k \in 1..Len(stages) : stages[k] = stage
    IN IF i < Len(stages) THEN stages[i + 1] ELSE "none"

(* BTCPredictionBot.__init__ and main before anything runs *)
BotConstructed(m) ==
    /\ mode = m
    /\ main = [pc |-> "start", running |-> FALSE, stage |-> "none",
               traded_this_window |-> FALSE, cycle_count |-> 0,
               ended |-> "none", failed |-> "none", recovered |-> FALSE]
    /\ scan = [pc |-> "none", running |-> FALSE, stage |-> "none",
               scan_count |-> 0, ended |-> "none", failed |-> "none",
               recovered |-> FALSE]
    /\ sessions = [s \in {"oracle", "polymarket", "scanner"} |-> "none"]
    /\ in_entry_window = FALSE
    /\ stop_requested = FALSE
    /\ seen = [tick_after_stop |-> FALSE, cycle_after_stop |-> FALSE,
               torn |-> FALSE, closed_in_flight |-> FALSE,
               window_cycles |-> 0, outside_since |-> TRUE,
               outside_start |-> FALSE, unreset_start |-> FALSE]

----------------------------------------------------------------------------
(* Trade records, resolutions and the hedge check: steps 6 to 8 of the    *)
(* directional cycle                                                       *)

(* the condition ids the venue lists in a run of the cycle *)
TradeMarkets == {1, 2}

(* BinaryMarket as discover_markets builds it: status ACTIVE, resolved     *)
(* False, resolution None ("none"); prices in cents.  known says that the  *)
(* dict _active_markets has the key.                                       *)
BinaryMarket(cid) ==
    [condition_id |-> cid, known |-> TRUE, price_up |-> 55, price_down |-> 40,
     resolved |-> FALSE, resolution |-> "none"]

NoMarket(cid) == [BinaryMarket(cid) EXCEPT !.known = FALSE]

(* self._active_markets[market.condition_id] = market for each listed      *)
(* market                                                                  *)
ActiveAfter(active, listed) ==
    [cid \in TradeMarkets |->
        IF cid \in listed THEN BinaryMarket(cid) ELSE active[cid]]

(* check_resolutions: the records it returns as newly resolved, as         *)
(* indices of the list; the variant returns a resolved record again        *)
NewlyResolvedAgain(recs, active) ==
    {i \in 1..Len(recs) :
        /\ active[recs[i].market_condition_id].known
        /\ active[recs[i].market_condition_id].resolved
        /\ active[recs[i].market_condition_id].resolution # "none"}

NewlyResolved(recs, active) ==
    {i \in 1..Len(recs) :
        /\ recs[i].outcome = "null"
        /\ active[recs[i].market_condition_id].known
        /\ active[recs[i].market_condition_id].resolved
        /\ active[recs[i].market_condition_id].resolution # "none"}

(* r.outcome and r.pnl as check_resolutions sets them; pnl in dollars,     *)
(* entry_price in cents                                                    *)
Resolved(r, m) ==
    LET won == r.direction = m.resolution
    IN [r EXCEPT !.outcome = IF won THEN "win" ELSE "loss",
                 !.pnl = IF won
                         THEN (r.size_usd * 100) \div r.entry_price - r.size_usd
                         ELSE 0 - r.size_usd]

(* self._trade_records after check_resolutions *)
ResolutionsAfter(recs, active) ==
    [i \in 1..Len(recs) |->
        IF i \in NewlyResolved(recs, active)
        THEN Resolved(recs[i], active[recs[i].market_condition_id])
        ELSE recs[i]]

HEDGE_MIN_CONF == 65      \* hedge_min_confidence = 0.65, in percent

(* a hedge check that does not look at the confidence *)
HedgeWantedAnyConfidence(trade, direction, confidence, active, hedged) ==
    /\ trade.outcome = "null"
    /\ trade.trade_id \notin hedged
    /\ trade.direction # direction
    /\ active[trade.market_condition_id].known

(* EdgeEngine.check_hedge for one open trade: does it get a hedge action *)
HedgeWanted(trade, direction, confidence, active, hedged) ==
    /\ trade.outcome = "null"
    /\ trade.trade_id \notin hedged
    /\ trade.direction # direction
    /\ confidence >= HEDGE_MIN_CONF
    /\ active[trade.market_condition_id].known

(* HedgeAction *)
HedgeAction(trade, m) ==
    LET hedge_price == IF trade.direction = "up" THEN m.price_down
                       ELSE m.price_up
    IN [original_trade_id |-> trade.trade_id,
        original_direction |-> trade.direction,
        hedge_direction |-> IF trade.direction = "up" THEN "down" ELSE "up",
        original_entry |-> trade.entry_price,
        hedge_price |-> hedge_price,
        locked_profit |-> (100 - (trade.entry_price + hedge_price)) * trade.size_usd,
        size_usd |-> trade.size_usd]

(* EdgeEngine.check_hedge: the actions, in the order of open_trades *)
RECURSIVE CheckHedge(_, _, _, _, _, _)
CheckHedge(open_trades, direction, confidence, active, hedged, enabled) ==
    IF ~enabled \/ open_trades = <<>> THEN <<>>
    ELSE LET trade == Head(open_trades)
         IN (IF HedgeWanted(trade, direction, confidence, active, hedged)
             THEN <<HedgeAction(trade, active[trade.market_condition_id])>>
             ELSE <<>>)
            \o CheckHedge(Tail(open_trades), direction, confidence, active,
                          hedged, enabled)

(* the loop over the hedge actions in _trading_cycle: the actions whose    *)
(* trade's market is among the tradeable ones of this cycle                *)
WithMarket(hedges, recs, tradeable) ==
    SelectSeq(hedges, LAMBDA h :
        \E i \in 1..Len(recs) :
            /\ recs[i].trade_id = h.original_trade_id
            /\ recs[i].market_condition_id \in tradeable)

(* before a check_hedge call: records and markets are its arguments *)
NoHedgeCall ==
    [called |-> FALSE, direction |-> "hold", confidence |-> 0, returned |-> <<>>,
     records |-> <<>>, hedged |-> {}, markets |-> <<>>]

(* PolymarketClient.__init__ and EdgeEngine.__init__ *)
TradesConstructed(hedge) ==
    /\ active_markets = [cid \in TradeMarkets |-> NoMarket(cid)]
    /\ hedged_trades = {}
    /\ hedge_enabled = hedge
    /\ trade_cycles = 0
    /\ trade_seen = [acted |-> <<>>, returned |-> <<>>, passed |-> <<>>,
                     emitted |-> <<>>, aborted |-> FALSE, before |-> <<>>,
                     active_at |-> [cid \in TradeMarkets |-> NoMarket(cid)]]
    /\ hedge_call = NoHedgeCall

(* StrategyEngine.analyze.  A strength is in halves (0, 1, 2 for 0.0, 0.5, *)
(* 1.0), a weight in 1/400, a bucket score therefore in 1/800; volatility  *)
(* is in 1/1000 percent and the confidence threshold in 1/1000.  A         *)
(* confidence and a size percent are exact fractions num/den.              *)

MIN_CANDLES == 30

ANCHOR_WEIGHT == 140

OTHERS_SHARE == 65

HALF_SCORE == 400

EST_FEE == 15

MAX_SIZE_PCT == 10

StrategyConfig(confidence_threshold) ==
    [confidence_threshold |-> confidence_threshold,
     min_volatility_pct |-> 50, max_volatility_pct |-> 3000,
     weight_momentum |-> 120, weight_rsi |-> 100,
     weight_macd |-> 100, weight_ema_cross |-> 80]

StrategyConfigs == { StrategyConfig(500), StrategyConfig(600) }

StrategySignal(name, direction, strength) ==
    [name |-> name, direction |-> direction, strength |-> strength]

(* the weights dict of analyze; weights.get gives 0 for a missing name *)
Weights(cfg, anchored) ==
    IF anchored
    THEN [price_vs_open |-> ANCHOR_WEIGHT,
          momentum  |-> (cfg.weight_momentum * OTHERS_SHARE) \div 100,
          rsi       |-> (cfg.weight_rsi * OTHERS_SHARE) \div 100,
          macd      |-> (cfg.weight_macd * OTHERS_SHARE) \div 100,
          ema_cross |-> (cfg.weight_ema_cross * OTHERS_SHARE) \div 100]
    ELSE [price_vs_open |-> 0,
          momentum  |-> cfg.weight_momentum,
          rsi       |-> cfg.weight_rsi,
          macd      |-> cfg.weight_macd,
          ema_cross |-> cfg.weight_ema_cross]

RECURSIVE Score(_, _, _)
(* up_score or down_score: the sum of strength * weight over one bucket *)
Score(signals, w, direction) ==
    IF signals = <<>> THEN 0
    ELSE (IF Head(signals).direction = direction
          THEN Head(signals).strength * w[Head(signals).name]
          ELSE 0)
         + Score(Tail(signals), w, direction)

Zero == [num |-> 0, den |-> 1]

(* c >= n/d *)
AtLeast(c, n, d) == c.num * d >= n * c.den

(* an aggregation in which up wins a tie *)
AggregateTieUp(up_score, down_score) ==
    LET total == up_score + down_score
        damp  == Min(total, HALF_SCORE)
    IN IF total = 0 THEN [direction |-> "hold", confidence |-> Zero]
       ELSE IF up_score >= down_score
            THEN [direction |-> "up",
                  confidence |-> [num |-> up_score * damp,
                                  den |-> total * HALF_SCORE]]
            ELSE [direction |-> "down",
                  confidence |-> [num |-> down_score * damp,
                                  den |-> total * HALF_SCORE]]

(* direction and confidence from the two buckets: winner / total, then     *)
(* times min(1, total / 0.5)                                               *)
Aggregate(up_score, down_score) ==
    LET total == up_score + down_score
        damp  == Min(total, HALF_SCORE)
    IN IF total = 0 THEN [direction |-> "hold", confidence |-> Zero]
       ELSE IF up_score > down_score
            THEN [direction |-> "up",
                  confidence |-> [num |-> up_score * damp,
                                  den |-> total * HALF_SCORE]]
            ELSE [direction |-> "down",
                  confidence |-> [num |-> down_score * damp,
                                  den |-> total * HALF_SCORE]]

(* raw_edge = abs(confidence - 0.5) * 2 * 100 is under est_fee_pct = 1.5 *)
RawEdgeBelowFee(c) ==
    LET d == 2 * c.num - c.den
    IN (IF d < 0 THEN -d ELSE d) * 1000 < EST_FEE * c.den

(* an analyze without the fee check *)
FeeGuardOff(direction, c) == FALSE

FeeGuard(direction, c) == RawEdgeBelowFee(c) /\ direction # "hold"

(* min(kelly * 100 * 0.25, 10.0) with kelly = max(0, 2 * confidence - 1) *)
SuggestedSize(c) ==
    LET k == Max(0, 2 * c.num - c.den)
    IN IF 25 * k >= MAX_SIZE_PCT * c.den
       THEN [num |-> MAX_SIZE_PCT, den |-> 1]
       ELSE [num |-> 25 * k, den |-> c.den]

(* the StrategyDecision of an early return *)
Held(reason, volatility) ==
    [direction |-> "hold", confidence |-> Zero, signals |-> <<>>,
     volatility_pct |-> volatility, should_trade |-> FALSE, reason |-> reason,
     position_size_pct |-> Zero, appended |-> FALSE]

NoDecision == Held("none", 0)

(* analyze: a holds the number of candles, what _volatility returned for   *)
(* the last 20 of them, whether an open price was given, and what the      *)
(* signal generators returned                                              *)
Analyze(cfg, a) ==
    IF a.candles < MIN_CANDLES THEN Held("insufficient_data", 0)
    ELSE IF a.volatility < cfg.min_volatility_pct
    THEN Held("volatility_too_low", a.volatility)
    ELSE IF a.volatility > cfg.max_volatility_pct
    THEN Held("volatility_too_high", a.volatility)
    ELSE
    LET w   == Weights(cfg, a.anchored)
        agg == Aggregate(Score(a.signals, w, "up"), Score(a.signals, w, "down"))
        trade == /\ agg.direction # "hold"
                 /\ AtLeast(agg.confidence, cfg.confidence_threshold, 1000)
    IN IF FeeGuard(agg.direction, agg.confidence)
       THEN [direction |-> agg.direction, confidence |-> agg.confidence,
             signals |-> a.signals, volatility_pct |-> a.volatility,
             should_trade |-> FALSE, reason |-> "edge_below_fee",
             position_size_pct |-> Zero, appended |-> FALSE]
       ELSE [direction |-> agg.direction, confidence |-> agg.confidence,
             signals |-> a.signals, volatility_pct |-> a.volatility,
             should_trade |-> trade, reason |-> "scores",
             position_size_pct |-> IF trade THEN SuggestedSize(agg.confidence)
                                   ELSE Zero,
             appended |-> TRUE]

(* what a signal generator can return: a direction with half or full       *)
(* strength, or a hold; _signal_rsi never holds but can have strength 0    *)
SignalReadings ==
    { StrategySignal("", d, s) : d \in {"up", "down"}, s \in {1, 2} }
        \cup { StrategySignal("", "hold", 0) }

RsiReadings ==
    { StrategySignal("", d, s) : d \in {"up", "down"}, s \in {1, 2} }
        \cup { StrategySignal("", "down", 0) }

(* the signals list: price_vs_open leads it when there is an open price *)
SignalList(anchored, p, m, r, c, x) ==
    (IF anchored THEN <<StrategySignal("price_vs_open", p.direction, p.strength)>>
     ELSE <<>>)
    \o <<StrategySignal("momentum", m.direction, m.strength),
         StrategySignal("rsi", r.direction, r.strength),
         StrategySignal("macd", c.direction, c.strength),
         StrategySignal("ema_cross", x.direction, x.strength)>>

(* candle counts and volatilities on both sides of each guard *)
CandleCounts == {MIN_CANDLES - 1, MIN_CANDLES}

Volatilities == {49, 50, 3000, 3001}

IdleArgs == [candles |-> 0, volatility |-> 0, anchored |-> FALSE, signals |-> <<>>]

(* before the first _trading_cycle *)
NoCycle ==
    [ran |-> FALSE, steps |-> <<>>, oracle |-> "none", candles |-> -1,
     verdict |-> "none", eligible |-> "none", size |-> 0, submitted |-> FALSE,
     before |-> <<>>]

(* StrategyEngine.__init__, and the call about to be made *)
StratConstructed(cfg, a) ==
    /\ strategy_config = cfg
    /\ analyze_args = a
    /\ decision = NoDecision
    /\ trade_history = 0
    /\ cycle_obs = NoCycle

RestConstructed ==
    /\ BotConstructed("directional")
    /\ TradesConstructed(FALSE)
    /\ StratConstructed(StrategyConfig(600), IdleArgs)

----------------------------------------------------------------------------
(* ArbScanner.run *)

(* ArbScanner.__init__ and PolymarketClient.__init__ *)
ArbConstructed ==
    /\ clob_initialized = FALSE
    /\ trade_records = <<>>
    /\ running = FALSE
    /\ pc = "init"
    /\ known_markets = <<>>
    /\ expired_markets = <<>>
    /\ executions = <<>>
    /\ cooldowns = <<>>
    /\ daily_trades = 0
    /\ daily_spent = 0
    /\ daily_profit = 0
    /\ day_start = 0
    /\ scan_count = 0
    /\ last_discovery = 0
    /\ best_edge_seen = 0
    /\ near_misses = <<>>
    /\ opps = <<>>
    /\ order_log = <<>>
    /\ tick_obs = [opps |-> <<>>, trades |-> 0, spent |-> 0, executions |-> 0,
                   orders |-> 0, time |-> 0, fetch |-> "none", kept |-> TRUE]
    /\ merged = {}
    /\ last_exec = [condition_id |-> 0, blocked |-> FALSE, status |-> "none",
                    time |-> 0]

(* a discovery that loses the table when the listing raises *)
DiscoveryRaisedCleared(known, exp, last) ==
    [known |-> <<>>, expired |-> exp, last_discovery |-> last]

(* ArbScanner._discover_markets when the listing raises: every assignment  *)
(* to the tables comes after the last page; the except branch returns      *)
(* list(self._known_markets.values())                                      *)
DiscoveryRaised(known, exp, last) ==
    [known |-> known, expired |-> exp, last_discovery |-> last]

(* a loop that asks for the listing at every tick *)
DiscoveryDueAlways(t, last) == TRUE

(* if time.time() - self._last_discovery > self._discovery_interval *)
DiscoveryDue(t, last) == t - last > DISCOVERY_INTERVAL

InitArb ==
    /\ now = StartTime
    /\ config \in Configs
    /\ polymarket \in BOOLEAN
    /\ creds_ok \in BOOLEAN
    /\ (~polymarket => creds_ok)
    /\ ArbConstructed
    /\ RestConstructed
    /\ RiskConstructed(RiskConfig(3, 15, 2, 720), 100, StartTime)
    /\ OracleConstructed(OracleConfig(30, 2))

(* self._running = True; self._day_start = time.time() *)
RunStart ==
    /\ pc = "init"
    /\ running' = TRUE
    /\ day_start' = now
    /\ pc' = "tick"
    /\ UNCHANGED <<now, config, polymarket, creds_ok, clob_initialized,
                   trade_records, known_markets, expired_markets, executions,
                   cooldowns, daily_trades, daily_spent, daily_profit,
                   scan_count, last_discovery, best_edge_seen, near_misses,
                   opps, order_log, tick_obs, merged, last_exec, riskVars, oracleVars,
                   restVars>>

(* the rest of a tick once the market table is in: prune, detect, sort;   *)
(* how says which of the two requests the tick made and how it ended       *)
Detect(how, rs, table, t1) ==
    LET live  == SeqFilterLive(table.known, t1)
        found == SortByEdge(FindOpportunities(live, t1, cooldowns, config))
    IN /\ known_markets' = live
       /\ expired_markets' = Archive(table.expired, table.known, t1)
       /\ last_discovery' = table.last_discovery
       /\ daily_trades' = rs.trades
       /\ daily_spent' = rs.spent
       /\ daily_profit' = rs.profit
       /\ day_start' = rs.day_start
       /\ best_edge_seen' = BestEdgeAfter(live, t1, rs.best, config)
       /\ near_misses' = NearMissesAfter(live, t1, rs.near, config)
       /\ scan_count' = scan_count + 1
       /\ opps' = found
       /\ pc' = IF found = <<>> THEN "sleep" ELSE "exec"
       /\ now' = t1
       /\ tick_obs' = [opps |-> found, trades |-> rs.trades, spent |-> rs.spent,
                       executions |-> Len(executions), orders |-> Len(order_log),
                       time |-> t1, fetch |-> how,
                       kept |-> /\ table.known = known_markets
                                /\ table.expired = expired_markets]
       /\ merged' = merged \cup Ids(table.known)
       /\ UNCHANGED <<config, polymarket, creds_ok, clob_initialized,
                      trade_records, running, executions, cooldowns,
                      order_log, last_exec, riskVars, oracleVars, restVars>>

(* a tick whose discovery is due: the listing arrives, or the call raises  *)
(* and the last-known table is kept                                        *)
ScanDiscover ==
    /\ pc = "tick"
    /\ scan_count < MaxScans
    /\ DiscoveryDue(now, last_discovery)
    /\ \/ \E resp \in Responses :
            Detect("discovered", CheckDailyReset(now),
                   Discovered(known_markets, expired_markets, Listed(resp),
                              now, now, config),
                   now)
       \/ Detect("raised", CheckDailyReset(now),
                 DiscoveryRaised(known_markets, expired_markets, last_discovery),
                 now)

(* a tick between discoveries: prices of stale entries are re-read *)
ScanRefresh ==
    /\ pc = "tick"
    /\ scan_count < MaxScans
    /\ ~DiscoveryDue(now, last_discovery)
    /\ \E resp \in Responses :
            Detect("refreshed", CheckDailyReset(now),
                   [known |-> RefreshPrices(known_markets, Listed(resp), now, config),
                    expired |-> expired_markets,
                    last_discovery |-> last_discovery],
                   now)

(* await self._execute_arb(opp), then the two breaks of the for loop *)
ExecuteArb ==
    /\ pc = "exec"
    /\ opps # <<>>
    /\ LET m == Head(opps)
           size == config.size_per_side_usd
           next(trades, spent) ==
               IF LoopBreaks(trades, spent, config) \/ Tail(opps) = <<>>
               THEN /\ pc' = "sleep"
                    /\ opps' = <<>>
               ELSE /\ pc' = "exec"
                    /\ opps' = Tail(opps)
       IN IF CeilingBlocked(daily_trades, daily_spent, config)
          THEN /\ next(daily_trades, daily_spent)
               /\ last_exec' = [condition_id |-> m.condition_id, blocked |-> TRUE,
                                status |-> "none", time |-> now]
               /\ UNCHANGED <<now, clob_initialized, trade_records, executions,
                              cooldowns, daily_trades, daily_spent, daily_profit,
                              order_log>>
          ELSE \E res \in IF polymarket
                         THEN PairResults(size, clob_initialized, creds_ok)
                         ELSE {<<"not_called", "not_called">>} :
               LET y == res[1]
                   n == res[2]
                   status == IF polymarket THEN CompositeStatus(y, n) ELSE "dry_run"
                   recs == RecordsAfter(trade_records, m.condition_id, size, y, n)
                   oy == IF y = "trade" THEN Len(trade_records) + 1 ELSE 0
                   on == IF n = "trade" THEN Len(recs) ELSE 0
                   calls == (IF y = "not_called" THEN <<>>
                             ELSE <<[execution |-> Len(executions) + 1,
                                     direction |-> "up", result |-> y]>>)
                           \o (IF n = "not_called" THEN <<>>
                               ELSE <<[execution |-> Len(executions) + 1,
                                       direction |-> "down", result |-> n]>>)
               IN /\ executions' = Append(executions,
                                      ArbExecution(now, m, config, oy, on, status))
                  /\ cooldowns' = CooldownsAfter(cooldowns, m.condition_id, now)
                  /\ daily_trades' = TradesAfter(daily_trades, status)
                  /\ daily_spent' = SpentAfter(daily_spent, config, status)
                  /\ daily_profit' = ProfitAfter(daily_profit, m, config, status)
                  /\ trade_records' = recs
                  /\ clob_initialized' =
                        IF polymarket /\ y # "raise"
                        THEN InitializedAfter(size, clob_initialized, creds_ok)
                        ELSE clob_initialized
                  /\ order_log' = order_log \o calls
                  /\ last_exec' = [condition_id |-> m.condition_id,
                                   blocked |-> FALSE, status |-> status,
                                   time |-> now]
                  /\ now' = now
                  /\ next(TradesAfter(daily_trades, status),
                          SpentAfter(daily_spent, config, status))
    /\ UNCHANGED <<config, polymarket, creds_ok, running, known_markets,
                   expired_markets, day_start, scan_count, last_discovery,
                   best_edge_seen, near_misses, tick_obs, merged, riskVars,
                   oracleVars, restVars>>

(* await asyncio.sleep(poll_interval_secs), then the while test *)
Sleep ==
    /\ pc = "sleep"
    /\ now' = now + config.poll_interval_secs
    /\ pc' = IF running THEN "tick" ELSE "stopped"
    /\ UNCHANGED <<config, polymarket, creds_ok, clob_initialized, trade_records,
                   running, known_markets, expired_markets, executions,
                   cooldowns, daily_trades, daily_spent, daily_profit, day_start,
                   scan_count, last_discovery, best_edge_seen, near_misses, opps,
                   order_log, tick_obs, merged, last_exec, riskVars, oracleVars,
                   restVars>>

(* ArbScanner.stop, called from the signal handler or from shutdown *)
Stop ==
    /\ running
    /\ running' = FALSE
    /\ UNCHANGED <<now, config, polymarket, creds_ok, clob_initialized,
                   trade_records, pc, known_markets, expired_markets, executions,
                   cooldowns, daily_trades, daily_spent, daily_profit, day_start,
                   scan_count, last_discovery, best_edge_seen, near_misses, opps,
                   order_log, tick_obs, merged, last_exec, riskVars, oracleVars,
                   restVars>>

NextArb == RunStart \/ ScanDiscover \/ ScanRefresh \/ ExecuteArb \/ Sleep \/ Stop

SpecArb == InitArb /\ [][NextArb]_vars

----------------------------------------------------------------------------
(* Risk Governor operations, called in any order by bot.py and the         *)
(* dashboard                                                               *)

(* the clock of the Risk Governor runs starts at midnight and moves in     *)
(* half days                                                               *)
RiskStart == 11 * DAY_SECS
ClockStep == 12 * 60 * 60

InitRisk ==
    /\ now = RiskStart
    /\ config = ArbScannerConfig(30, 98, 1, 10, 1, 200, 0, 30)
    /\ polymarket = FALSE
    /\ creds_ok = TRUE
    /\ ArbConstructed
    /\ RestConstructed
    /\ \E cfg \in RiskConfigs, bankroll \in Bankrolls :
            RiskConstructed(cfg, bankroll, RiskStart)
    /\ OracleConstructed(OracleConfig(30, 2))

(* RiskManager.can_trade *)
CanTrade ==
    LET res == CanTradeResult(daily, capital, now, risk_config)
    IN /\ daily' = res.daily
       /\ resets' = resets + ResetCount(daily, now)
       /\ last_call' = Call("can_trade", res, 0, 0, now)
       /\ UNCHANGED <<now, arbVars, oracleVars, restVars, risk_config, capital, total_pnl,
                      recorded, date_changes>>

(* RiskManager.get_status: the reset, then can_trade *)
GetStatus ==
    LET d   == ResetDailyIfNeeded(daily, now)
        res == CanTradeResult(d, capital, now, risk_config)
    IN /\ daily' = res.daily
       /\ resets' = resets + ResetCount(daily, now)
       /\ last_call' = Call("get_status", res, 0, 0, now)
       /\ UNCHANGED <<now, arbVars, oracleVars, restVars, risk_config, capital, total_pnl,
                      recorded, date_changes>>

(* RiskManager.record_trade *)
RecordTrade ==
    /\ recorded < MaxRecorded
    /\ \E pnl \in Pnls :
         /\ daily' = RecordedDaily(daily, pnl, now)
         /\ total_pnl' = total_pnl + pnl
         /\ capital' = CapitalAfter(capital, pnl)
         /\ resets' = resets + ResetCount(daily, now)
         /\ last_call' = Call("record_trade", NoResult, pnl, 0, now)
    /\ recorded' = recorded + 1
    /\ UNCHANGED <<now, arbVars, oracleVars, restVars, risk_config, date_changes>>

(* RiskManager.calculate_position_size *)
PositionSize ==
    /\ \E conf \in Confidences :
         last_call' = [Call("calculate_position_size", NoResult, 0,
                            CalculatePositionSize(capital, conf, risk_config),
                            now) EXCEPT !.confidence = conf]
    /\ UNCHANGED <<now, arbVars, oracleVars, restVars, risk_config, capital, daily,
                   total_pnl, resets, recorded, date_changes>>

(* time passes between two operations *)
AdvanceClock ==
    /\ now + ClockStep <= RiskStart + MaxClock * ClockStep
    /\ now' = now + ClockStep
    /\ date_changes' = date_changes
                          + (IF Today(now + ClockStep) # Today(now) THEN 1 ELSE 0)
    /\ UNCHANGED <<arbVars, oracleVars, restVars, risk_config, capital, daily, total_pnl,
                   last_call, resets, recorded>>

NextRisk == CanTrade \/ GetStatus \/ RecordTrade \/ PositionSize \/ AdvanceClock

SpecRisk == InitRisk /\ [][NextRisk]_vars

----------------------------------------------------------------------------
(* Oracle operations: capture_window_open from either task, and get_price  *)
(* called on its own                                                       *)

OracleTick == 25

InitOracle ==
    /\ now = OracleStart
    /\ config = ArbScannerConfig(30, 98, 1, 10, 1, 200, 0, 30)
    /\ polymarket = FALSE
    /\ creds_ok = TRUE
    /\ ArbConstructed
    /\ RestConstructed
    /\ RiskConstructed(RiskConfig(3, 15, 2, 720), 100, OracleStart)
    /\ \E cfg \in OracleConfigs : OracleConstructed(cfg)

(* what a get_price that read results is observed to have done *)
Got(results, g) ==
    [time |-> now, results |-> Readings(results, 1),
     cache_before |-> last_prices, history_before |-> price_history,
     raised |-> g.raised, valid |-> g.valid, consensus |-> g.consensus]

(* capture_window_open up to its await: the anchor of the current window   *)
(* is returned if there is one, else the price fetch begins.  The tasks    *)
(* are alike, so the lower-numbered one is taken to call first.            *)
CaptureWindowOpen(p) ==
    /\ captures[p].pc = "idle"
    /\ \A q \in Callers : q < p => captures[q].pc # "idle"
    /\ LET b == WindowBoundary(now)
           n == Cardinality({q \in Callers : captures[q].pc # "idle"})
           c == [captures[p] EXCEPT !.order = n + 1, !.started = now,
                                    !.made_before = Len(anchors_made),
                                    !.boundary = b]
       IN IF window_anchor # <<>> /\ window_anchor[1].boundary_time = b
          THEN /\ captures' = [captures EXCEPT
                                  ![p] = [c EXCEPT !.pc = "returned",
                                                   !.result = window_anchor]]
               /\ UNCHANGED fetches
          ELSE /\ fetches < MaxFetches
               /\ captures' = [captures EXCEPT ![p] = [c EXCEPT !.pc = "fetching"]]
               /\ fetches' = fetches + 1
    /\ UNCHANGED <<now, arbVars, riskVars, restVars, oracle_config, last_prices,
                   price_history, window_anchor, anchors_made, last_get>>

(* capture_window_open after its await: get_price finishes, and the anchor *)
(* is built and stored, or the failure goes to the caller                  *)
CaptureStore(p) ==
    /\ captures[p].pc = "fetching"
    /\ \E results \in Gathered(now) :
         LET g == GetPrice(results, last_prices, now, oracle_config)
         IN /\ last_prices' = g.cache
            /\ last_get' = Got(results, g)
            /\ IF g.raised
               THEN /\ captures' = [captures EXCEPT ![p].pc = "failed",
                                                    ![p].fetched = TRUE]
                    /\ UNCHANGED <<price_history, window_anchor, anchors_made>>
               ELSE LET a == WindowAnchor(captures[p].boundary,
                                          g.consensus[1], now)
                    IN /\ price_history' = price_history \o g.consensus
                       /\ window_anchor' = <<a>>
                       /\ anchors_made' = Append(anchors_made, a)
                       /\ captures' = [captures EXCEPT ![p].pc = "returned",
                                                       ![p].fetched = TRUE,
                                                       ![p].result = <<a>>]
    /\ UNCHANGED <<now, arbVars, riskVars, restVars, oracle_config, fetches>>

(* OracleEngine.get_price called on its own (step 2 of the trading cycle) *)
GetPriceCall ==
    /\ fetches < MaxFetches
    /\ fetches' = fetches + 1
    /\ \E results \in Gathered(now) :
         LET g == GetPrice(results, last_prices, now, oracle_config)
         IN /\ last_prices' = g.cache
            /\ last_get' = Got(results, g)
            /\ price_history' = price_history \o g.consensus
    /\ UNCHANGED <<now, arbVars, riskVars, restVars, oracle_config, window_anchor,
                   captures, anchors_made>>

(* time passes *)
OracleClock ==
    /\ now + OracleTick <= OracleStart + MaxOracleClock * OracleTick
    /\ now' = now + OracleTick
    /\ UNCHANGED <<arbVars, riskVars, oracleVars, restVars>>

NextOracle ==
    \/ \E p \in Callers : CaptureWindowOpen(p)
    \/ \E p \in Callers : CaptureStore(p)
    \/ GetPriceCall
    \/ OracleClock

SpecOracle == InitOracle /\ [][NextOracle]_vars

----------------------------------------------------------------------------
(* get_price over every combination of feed outcomes and caches *)

(* every way the three feeds can answer one gather at time t: each feed,   *)
(* independently, gives no PricePoint (None after a caught exception, a    *)
(* non-200 status or a timeout, or an exception object kept by gather), a  *)
(* reading taken now, or a reading 40 s old                                *)
AnyGathered(t) ==
    {[i \in 1..3 |-> [j \in 1..Len(ans[i]) |->
                         PricePoint(Sources[i], t - ans[i][j])]] :
        ans \in [1..3 -> {<<>>, <<0>>, <<40>>}]}

(* the caches earlier calls can have left at time t: per feed nothing, or  *)
(* a reading 10, 50 or 70 s old                                            *)
CachesAt(t) ==
    {Readings([i \in 1..3 |-> [j \in 1..Len(ans[i]) |->
                                  PricePoint(Sources[i], t - ans[i][j])]], 1) :
        ans \in [1..3 -> {<<>>, <<10>>, <<50>>, <<70>>}]}

InitFeeds ==
    /\ now = OracleStart + 2 * CACHE_MAX_AGE
    /\ config = ArbScannerConfig(30, 98, 1, 10, 1, 200, 0, 30)
    /\ polymarket = FALSE
    /\ creds_ok = TRUE
    /\ ArbConstructed
    /\ RestConstructed
    /\ RiskConstructed(RiskConfig(3, 15, 2, 720), 100, OracleStart)
    /\ oracle_config \in OracleConfigs
    /\ last_prices \in CachesAt(now)
    /\ price_history = <<>>
    /\ window_anchor = <<>>
    /\ captures = [p \in Callers |-> IdleCall]
    /\ anchors_made = <<>>
    /\ fetches = 0
    /\ last_get = NoGet

(* OracleEngine.get_price, once, whatever the feeds answer *)
GetPriceAny ==
    /\ fetches = 0
    /\ fetches' = 1
    /\ \E results \in AnyGathered(now) :
         LET g == GetPrice(results, last_prices, now, oracle_config)
         IN /\ last_prices' = g.cache
            /\ last_get' = Got(results, g)
            /\ price_history' = price_history \o g.consensus
    /\ UNCHANGED <<now, arbVars, riskVars, restVars, oracle_config, window_anchor,
                   captures, anchors_made>>

SpecFeeds == InitFeeds /\ [][GetPriceAny]_vars

----------------------------------------------------------------------------
(* The process: bot.run, ArbScanner.run as a task, SIGINT and shutdown *)

InitBot ==
    /\ now = StartTime
    /\ config = ArbScannerConfig(30, 98, 1, 10, 1, 200, 0, 30)
    /\ polymarket = TRUE
    /\ creds_ok = TRUE
    /\ ArbConstructed
    /\ RiskConstructed(RiskConfig(3, 15, 2, 720), 100, StartTime)
    /\ OracleConstructed(OracleConfig(30, 2))
    /\ \E m \in BotModes : BotConstructed(m)
    /\ TradesConstructed(FALSE)
    /\ StratConstructed(StrategyConfig(600), IdleArgs)

(* BTCPredictionBot.run up to its loop: the scanner task is created if     *)
(* there is a scanner, and running is set                                  *)
BotRun ==
    /\ mode # "arb_only"
    /\ main.pc = "start"
    /\ main' = [main EXCEPT !.pc = "poll", !.running = TRUE]
    /\ scan' = IF mode = "directional_arb"
               THEN [scan EXCEPT !.pc = "created"] ELSE scan
    /\ UNCHANGED <<now, arbVars, riskVars, oracleVars, tradeVars, stratVars, mode, sessions,
                   in_entry_window, stop_requested, seen>>

(* main in arb-only mode up to its keep-alive loop *)
ArbOnlyStart ==
    /\ mode = "arb_only"
    /\ main.pc = "start"
    /\ main' = [main EXCEPT !.pc = "keepalive", !.running = TRUE]
    /\ scan' = [scan EXCEPT !.pc = "created"]
    /\ UNCHANGED <<now, arbVars, riskVars, oracleVars, tradeVars, stratVars, mode, sessions,
                   in_entry_window, stop_requested, seen>>

(* ArbScanner.run up to its loop *)
ScannerRun ==
    /\ scan.pc = "created"
    /\ scan' = [scan EXCEPT !.pc = "loop", !.running = TRUE]
    /\ UNCHANGED <<now, arbVars, riskVars, oracleVars, tradeVars, stratVars, mode, main, sessions,
                   in_entry_window, stop_requested, seen>>

(* while self._running: a tick begins, or the loop is left *)
ScanLoop ==
    /\ scan.pc = "loop"
    /\ IF scan.running
       THEN /\ scan.scan_count < MaxTicks
            /\ scan' = [scan EXCEPT !.pc = "tick", !.stage = TickStages[1],
                                    !.scan_count = @ + 1, !.ended = "none",
                                    !.recovered = @ \/ scan.ended = "error"]
            /\ seen' = [seen EXCEPT !.tick_after_stop = @ \/ stop_requested]
       ELSE /\ scan' = [scan EXCEPT !.pc = "closing"]
            /\ UNCHANGED seen
    /\ UNCHANGED <<now, arbVars, riskVars, oracleVars, tradeVars, stratVars, mode, main, sessions,
                   in_entry_window, stop_requested>>

(* one stage of the tick inside the try block *)
ScanTick ==
    /\ scan.pc = "tick"
    /\ \E end \in StageEnds :
         scan' = IF end = "raise" THEN ScanCaught(scan, scan.stage)
                 ELSE IF end = "return" \/ StageAfter(TickStages, scan.stage) = "none"
                 THEN ScanDone(scan)
                 ELSE [scan EXCEPT !.stage = StageAfter(TickStages, scan.stage)]
    /\ sessions' = IF scan.stage = "fetch" THEN Opened(sessions, "scanner")
                   ELSE sessions
    /\ UNCHANGED <<now, arbVars, riskVars, oracleVars, tradeVars, stratVars, mode, main,
                   in_entry_window, stop_requested, seen>>

(* await asyncio.sleep(poll_interval_secs) is over *)
ScanSleep ==
    /\ scan.pc = "sleep"
    /\ scan' = [scan EXCEPT !.pc = "loop"]
    /\ UNCHANGED <<now, arbVars, riskVars, oracleVars, tradeVars, stratVars, mode, main, sessions,
                   in_entry_window, stop_requested, seen>>

(* await self._close_session() after the loop *)
ScanClose ==
    /\ scan.pc = "closing"
    /\ scan' = [scan EXCEPT !.pc = "stopped"]
    /\ sessions' = Closed(sessions, "scanner")
    /\ UNCHANGED <<now, arbVars, riskVars, oracleVars, tradeVars, stratVars, mode, main,
                   in_entry_window, stop_requested, seen>>

(* one pass of the loop of BTCPredictionBot.run up to its next await *)
Poll ==
    /\ mode # "arb_only"
    /\ main.pc = "poll"
    /\ IF ~main.running
       THEN /\ main' = [main EXCEPT !.pc = "shutdown"]
            /\ UNCHANGED seen
       ELSE IF in_entry_window /\ ~main.traded_this_window
       THEN /\ main.cycle_count < MaxBotCycles
            /\ main' = [main EXCEPT !.pc = "cycle", !.stage = CycleStages[1],
                                    !.cycle_count = @ + 1, !.ended = "none",
                                    !.recovered = @ \/ main.ended = "error"]
            /\ seen' = [seen EXCEPT
                           !.cycle_after_stop = @ \/ stop_requested,
                           !.window_cycles = @ + 1,
                           !.outside_start = @ \/ ~in_entry_window,
                           !.unreset_start = @ \/ (/\ main.cycle_count > 0
                                                   /\ ~seen.outside_since),
                           !.outside_since = FALSE]
       ELSE /\ main' = [main EXCEPT !.pc = "sleep",
                           !.traded_this_window = in_entry_window]
            /\ seen' = [seen EXCEPT !.outside_since = @ \/ ~in_entry_window]
    /\ UNCHANGED <<now, arbVars, riskVars, oracleVars, tradeVars, stratVars, mode, scan, sessions,
                   in_entry_window, stop_requested>>

(* one stage of _trading_cycle inside its try block *)
Cycle ==
    /\ main.pc = "cycle"
    /\ \E end \in StageEnds :
         main' = IF end = "raise" THEN CycleCaught(main, main.stage)
                 ELSE IF end = "return" \/ StageAfter(CycleStages, main.stage) = "none"
                 THEN CycleDone(main)
                 ELSE [main EXCEPT !.stage = StageAfter(CycleStages, main.stage)]
    /\ sessions' = IF main.stage = "oracle" THEN Opened(sessions, "oracle")
                   ELSE IF main.stage = "markets"
                   THEN Opened(sessions, "polymarket")
                   ELSE sessions
    /\ UNCHANGED <<now, arbVars, riskVars, oracleVars, tradeVars, stratVars, mode, scan,
                   in_entry_window, stop_requested, seen>>

(* the keep-alive loop of main in arb-only mode *)
KeepAlive ==
    /\ mode = "arb_only"
    /\ main.pc = "keepalive"
    /\ main' = IF main.running /\ scan.pc \notin {"stopped", "dead"}
               THEN [main EXCEPT !.pc = "sleep"]
               ELSE [main EXCEPT !.pc = "shutdown"]
    /\ UNCHANGED <<now, arbVars, riskVars, oracleVars, tradeVars, stratVars, mode, scan, sessions,
                   in_entry_window, stop_requested, seen>>

(* the sleep of the main task's loop is over *)
MainSleep ==
    /\ main.pc = "sleep"
    /\ main' = [main EXCEPT !.pc = IF mode = "arb_only" THEN "keepalive"
                                   ELSE "poll"]
    /\ UNCHANGED <<now, arbVars, riskVars, oracleVars, tradeVars, stratVars, mode, scan, sessions,
                   in_entry_window, stop_requested, seen>>

(* the signal handler: bot.stop(), or in arb-only mode scanner.stop() and  *)
(* running = False                                                         *)
Signal ==
    /\ ~stop_requested
    /\ main.pc \notin {"start", "shutdown", "closing", "returned", "exited"}
    /\ stop_requested' = TRUE
    /\ main' = [main EXCEPT !.running = FALSE]
    /\ scan' = IF mode = "arb_only" THEN [scan EXCEPT !.running = FALSE]
               ELSE scan
    /\ UNCHANGED <<now, arbVars, riskVars, oracleVars, tradeVars, stratVars, mode, sessions,
                   in_entry_window, seen>>

(* BTCPredictionBot.shutdown up to its second await: stop, the scanner's   *)
(* stop, the oracle's close; in arb-only mode the finally block of main:   *)
(* the scanner's stop and the order client's close                         *)
Shutdown ==
    /\ main.pc = "shutdown"
    /\ main' = [main EXCEPT !.running = FALSE,
                            !.pc = IF mode = "arb_only" THEN "returned"
                                   ELSE "closing"]
    /\ scan' = IF scan.pc # "none" THEN [scan EXCEPT !.running = FALSE]
               ELSE scan
    /\ sessions' = Closed(sessions, IF mode = "arb_only" THEN "polymarket"
                                    ELSE "oracle")
    /\ seen' = [seen EXCEPT !.closed_in_flight = @ \/ scan.pc = "tick"]
    /\ UNCHANGED <<now, arbVars, riskVars, oracleVars, tradeVars, stratVars, mode, in_entry_window,
                   stop_requested>>

(* await self.polymarket.close() and the rest of shutdown *)
CloseClient ==
    /\ main.pc = "closing"
    /\ main' = [main EXCEPT !.pc = "returned"]
    /\ sessions' = Closed(sessions, "polymarket")
    /\ seen' = [seen EXCEPT !.closed_in_flight = @ \/ scan.pc = "tick"]
    /\ UNCHANGED <<now, arbVars, riskVars, oracleVars, tradeVars, stratVars, mode, scan,
                   in_entry_window, stop_requested>>

(* main has returned: asyncio.run cancels the task that is still pending   *)
(* at its await, and the process exits                                     *)
Exit ==
    /\ main.pc = "returned"
    /\ main' = [main EXCEPT !.pc = "exited"]
    /\ scan' = IF scan.pc \in {"created", "loop", "tick", "sleep", "closing"}
               THEN [scan EXCEPT !.pc = "cancelled"] ELSE scan
    /\ seen' = [seen EXCEPT !.torn = scan.pc \in {"tick", "closing"}]
    /\ UNCHANGED <<now, arbVars, riskVars, oracleVars, tradeVars, stratVars, mode, sessions,
                   in_entry_window, stop_requested>>

(* the clock enters or leaves the entry window *)
Window ==
    /\ mode # "arb_only"
    /\ main.pc \notin {"start", "exited"}
    /\ in_entry_window' = ~in_entry_window
    /\ seen' = [seen EXCEPT !.window_cycles = IF in_entry_window THEN @ ELSE 0]
    /\ UNCHANGED <<now, arbVars, riskVars, oracleVars, tradeVars, stratVars, mode, main, scan,
                   sessions, stop_requested>>

NextBot ==
    \/ BotRun
    \/ ArbOnlyStart
    \/ ScannerRun
    \/ ScanLoop
    \/ ScanTick
    \/ ScanSleep
    \/ ScanClose
    \/ Poll
    \/ Cycle
    \/ KeepAlive
    \/ MainSleep
    \/ Signal
    \/ Shutdown
    \/ CloseClient
    \/ Exit
    \/ Window

SpecBot == InitBot /\ [][NextBot]_vars

----------------------------------------------------------------------------
(* Steps 6 to 8 of the directional cycle, and the venue's reports *)

InitTrades ==
    /\ now = StartTime
    /\ config = ArbScannerConfig(30, 98, 1, 10, 1, 200, 0, 30)
    /\ polymarket = TRUE
    /\ creds_ok = TRUE
    /\ ArbConstructed
    /\ RiskConstructed(RiskConfig(3, 15, 2, 720), 100, StartTime)
    /\ OracleConstructed(OracleConfig(30, 2))
    /\ BotConstructed("directional")
    /\ \E hedge \in BOOLEAN : TradesConstructed(hedge)
    /\ StratConstructed(StrategyConfig(600), IdleArgs)

(* a sequence of counters with the counters of a set of indices raised *)
Counted(counts, indices) ==
    [i \in 1..Len(counts) |-> IF i \in indices THEN counts[i] + 1 ELSE counts[i]]

(* _trading_cycle from market discovery on, for a decision to trade that   *)
(* the Risk Governor let through: discovery, the hedge check, the          *)
(* directional order, the resolutions.  Evaluating h.hedge_size_usd for    *)
(* the first hedge action with a tradeable market raises AttributeError    *)
(* (HedgeAction has no such field), which ends the cycle.                  *)
TradeCycle ==
    /\ trade_cycles < MaxTradeCycles
    /\ trade_cycles' = trade_cycles + 1
    /\ \E listed \in SUBSET TradeMarkets, direction \in {"up", "down"},
          confidence \in {60, 70}, order \in {"trade", "none", "no_size"} :
         LET active == ActiveAfter(active_markets, listed)
             hedges == CheckHedge(trade_records, direction, confidence,
                                  active, hedged_trades, hedge_enabled)
             acting == WithMarket(hedges, trade_records, listed)
         IN /\ active_markets' = active
            /\ IF listed = {}
               THEN UNCHANGED <<trade_records, trade_seen>>
               ELSE IF acting # <<>>
               THEN /\ trade_seen' =
                          [trade_seen EXCEPT
                              !.acted = Counted(@, {acting[1].original_trade_id}),
                              !.emitted = hedges, !.aborted = TRUE]
                    /\ UNCHANGED trade_records
               ELSE IF order = "no_size"
               THEN /\ trade_seen' = [trade_seen EXCEPT !.emitted = hedges,
                                                        !.aborted = FALSE]
                    /\ UNCHANGED trade_records
               ELSE \E cid \in listed :
                      LET m == active[cid]
                          r == [TradeRecord(Len(trade_records) + 1, cid,
                                            direction, 10)
                                   EXCEPT !.entry_price =
                                      IF direction = "up" THEN m.price_up
                                      ELSE m.price_down]
                          placed == order = "trade"
                                       /\ Len(trade_records) < MaxTrades
                          recs == IF placed THEN Append(trade_records, r)
                                  ELSE trade_records
                          grown(counts) == IF placed THEN Append(counts, 0)
                                           ELSE counts
                          resolved == NewlyResolved(recs, active)
                      IN /\ trade_records' = ResolutionsAfter(recs, active)
                         /\ trade_seen' =
                               [trade_seen EXCEPT
                                   !.acted = grown(@),
                                   !.returned = Counted(grown(@), resolved),
                                   !.passed = Counted(grown(@), resolved),
                                   !.emitted = hedges, !.aborted = FALSE,
                                   !.before = recs, !.active_at = active]
    /\ UNCHANGED <<now, arbOther, riskVars, oracleVars, botVars, stratVars,
                   hedged_trades, hedge_enabled, hedge_call>>

(* the venue reports a market the client holds as resolved (no code of the *)
(* repository sets BinaryMarket.resolved: the report comes from outside)   *)
ReportResolved ==
    /\ \E cid \in TradeMarkets, resolution \in {"up", "down"} :
         /\ active_markets[cid].known
         /\ ~active_markets[cid].resolved
         /\ active_markets' = [active_markets EXCEPT
                                  ![cid].resolved = TRUE,
                                  ![cid].resolution = resolution]
    /\ UNCHANGED <<now, arbVars, riskVars, oracleVars, botVars, stratVars, hedged_trades,
                   hedge_enabled, trade_cycles, trade_seen, hedge_call>>

NextTrades ==
    \/ TradeCycle
    \/ ReportResolved

SpecTrades == InitTrades /\ [][NextTrades]_vars

----------------------------------------------------------------------------
(* One check_hedge call on any open trades, marks, markets and signal; the *)
(* open trades and the markets are arguments of the call                   *)

(* a TradeRecord as place_order or check_resolutions left it *)
HeldTrade(id, cid, direction, entry_price, outcome) ==
    [TradeRecord(id, cid, direction, 10) EXCEPT !.entry_price = entry_price,
                                                !.outcome = outcome]

InitHedge ==
    /\ now = StartTime
    /\ config = ArbScannerConfig(30, 98, 1, 10, 1, 200, 0, 30)
    /\ polymarket = TRUE
    /\ creds_ok = TRUE
    /\ ArbConstructed
    /\ RiskConstructed(RiskConfig(3, 15, 2, 720), 100, StartTime)
    /\ OracleConstructed(OracleConfig(30, 2))
    /\ BotConstructed("directional")
    /\ StratConstructed(StrategyConfig(600), IdleArgs)
    /\ active_markets = [cid \in TradeMarkets |-> NoMarket(cid)]
    /\ hedged_trades \in SUBSET {1, 2}
    /\ hedge_enabled \in BOOLEAN
    /\ trade_cycles = 0
    /\ trade_seen = [acted |-> <<>>, returned |-> <<>>, passed |-> <<>>,
                     emitted |-> <<>>, aborted |-> FALSE, before |-> <<>>,
                     active_at |-> [cid \in TradeMarkets |-> NoMarket(cid)]]
    /\ \E c1 \in TradeMarkets, c2 \in TradeMarkets,
          d1 \in {"up", "down"}, d2 \in {"up", "down"},
          e1 \in {40, 70}, o1 \in {"null", "win"}, o2 \in {"null", "loss"},
          known \in SUBSET TradeMarkets :
          hedge_call =
             [NoHedgeCall EXCEPT
                 !.records = <<HeldTrade(1, c1, d1, e1, o1),
                               HeldTrade(2, c2, d2, 55, o2)>>,
                 !.markets = [cid \in TradeMarkets |->
                                 IF cid \in known THEN BinaryMarket(cid)
                                 ELSE NoMarket(cid)]]

(* EdgeEngine.check_hedge(open_trades, direction, confidence, markets) *)
CheckHedgeCall ==
    /\ ~hedge_call.called
    /\ \E direction \in {"up", "down", "hold"}, confidence \in {64, 65} :
         hedge_call' =
            [hedge_call EXCEPT
                !.called = TRUE, !.direction = direction,
                !.confidence = confidence,
                !.returned = CheckHedge(hedge_call.records, direction,
                                        confidence, hedge_call.markets,
                                        hedged_trades, hedge_enabled),
                !.hedged = hedged_trades]
    /\ UNCHANGED <<now, arbVars, riskVars, oracleVars, botVars, stratVars,
                   active_markets, hedged_trades, hedge_enabled, trade_cycles,
                   trade_seen>>

SpecHedge == InitHedge /\ [][CheckHedgeCall]_vars

----------------------------------------------------------------------------
(* One analyze call of the strategy engine, on any candles and signals *)

InitStrategy ==
    /\ now = StartTime
    /\ config = ArbScannerConfig(30, 98, 1, 10, 1, 200, 0, 30)
    /\ polymarket = TRUE
    /\ creds_ok = TRUE
    /\ ArbConstructed
    /\ RiskConstructed(RiskConfig(3, 15, 2, 720), 100, StartTime)
    /\ OracleConstructed(OracleConfig(30, 2))
    /\ BotConstructed("directional")
    /\ TradesConstructed(FALSE)
    /\ \E cfg \in StrategyConfigs, n \in CandleCounts, v \in Volatilities,
          an \in BOOLEAN, m \in SignalReadings, r \in RsiReadings,
          c \in SignalReadings, x \in SignalReadings :
          \E p \in IF an THEN SignalReadings ELSE {StrategySignal("", "hold", 0)} :
             StratConstructed(cfg, [candles |-> n, volatility |-> v,
                                    anchored |-> an,
                                    signals |-> SignalList(an, p, m, r, c, x)])

(* StrategyEngine.analyze *)
AnalyzeCall ==
    /\ decision = NoDecision
    /\ decision' = Analyze(strategy_config, analyze_args)
    /\ trade_history' = trade_history + (IF decision'.appended THEN 1 ELSE 0)
    /\ UNCHANGED <<now, arbVars, riskVars, oracleVars, botVars, tradeVars,
                   strategy_config, analyze_args, cycle_obs>>

SpecStrategy == InitStrategy /\ [][AnalyzeCall]_vars

----------------------------------------------------------------------------
(* The whole directional cycle: oracle, candles, strategy, Risk Governor,  *)
(* markets, hedge check, size, order, resolutions                          *)

CYCLE_MIN_CANDLES == 30   \* if len(candles) < 30: return

MaxCycles == 3            \* directional cycles in a run

(* the steps of _trading_cycle, in the order of the code *)
CycleSteps ==
    <<"anchor", "price", "candles", "strategy", "risk", "markets", "hedge",
      "size", "order", "resolutions">>

(* a cycle that goes on to the markets whatever can_trade answered *)
BlockedNever(res) == FALSE

(* if not can_trade: return *)
Blocked(res) == ~res.ok

(* decision.confidence, a fraction, as the percent the sizing works in *)
ConfidencePct(c) == (c.num * 100) \div c.den

(* the loop over check_resolutions' result: record_trade(r.pnl) for each   *)
(* newly resolved record, in list order                                    *)
RECURSIVE RecordedFrom(_, _, _, _, _)
RecordedFrom(st, recs, resolved, i, t) ==
    IF i > Len(recs) THEN st
    ELSE IF i \in resolved
    THEN RecordedFrom([daily |-> RecordedDaily(st.daily, recs[i].pnl, t),
                       total_pnl |-> st.total_pnl + recs[i].pnl,
                       capital |-> CapitalAfter(st.capital, recs[i].pnl),
                       recorded |-> st.recorded + 1],
                      recs, resolved, i + 1, t)
    ELSE RecordedFrom(st, recs, resolved, i + 1, t)

InitCycle ==
    /\ now = StartTime
    /\ config = ArbScannerConfig(30, 98, 1, 10, 1, 200, 0, 30)
    /\ polymarket = TRUE
    /\ creds_ok = TRUE
    /\ ArbConstructed
    /\ RiskConstructed(RiskConfig(3, 30, 1, 1440), 100, StartTime)
    /\ OracleConstructed(OracleConfig(30, 2))
    /\ BotConstructed("directional")
    /\ \E hedge \in BOOLEAN : TradesConstructed(hedge)
    /\ StratConstructed(StrategyConfig(600), IdleArgs)

(* _trading_cycle.  get_price returns a consensus or raises; get_candles   *)
(* returns the candles, or [] when the fetch failed; evaluating            *)
(* h.hedge_size_usd for a hedge action with a tradeable market raises      *)
(* AttributeError.  An exception ends the cycle (except Exception).  The   *)
(* window's open price is taken as captured (anchor is not None).          *)
TradingCycle ==
    /\ main.cycle_count < MaxCycles
    /\ main' = [main EXCEPT !.cycle_count = @ + 1]
    /\ \E oracle \in {"consensus", "down"},
          n \in {0, CYCLE_MIN_CANDLES - 1, CYCLE_MIN_CANDLES},
          s \in {StrategySignal("", "up", 2), StrategySignal("", "down", 2),
                 StrategySignal("", "hold", 0)},
          listed \in {{}, {1}, {2}}, order \in {"trade", "none"} :
         LET r0 == IF s.direction = "hold" THEN StrategySignal("", "down", 0)
                   ELSE s
             a == [candles |-> n, volatility |-> 100, anchored |-> TRUE,
                   signals |-> SignalList(TRUE, s, s, r0, s, s)]
             active == ActiveAfter(active_markets, listed)
             cid == IF listed = {} THEN 1 ELSE CHOOSE c \in listed : TRUE
         IN
         \E d \in {Analyze(strategy_config, a)},
            can \in {CanTradeResult(daily, capital, now, risk_config)} :
         \E size \in {CalculatePositionSize(capital, ConfidencePct(d.confidence),
                                            risk_config)},
            hedges \in {CheckHedge(trade_records, d.direction,
                                   ConfidencePct(d.confidence), active,
                                   hedged_trades, hedge_enabled)} :
         \E last \in {IF oracle = "down" THEN 2
                      ELSE IF n < CYCLE_MIN_CANDLES THEN 3
                      ELSE IF ~d.should_trade THEN 4
                      ELSE IF Blocked(can) THEN 5
                      ELSE IF listed = {} THEN 6
                      ELSE IF WithMarket(hedges, trade_records, listed) # <<>>
                      THEN 7
                      ELSE IF size <= 0 THEN 8
                      ELSE 10} :
         LET m == active[cid]
             r == [TradeRecord(Len(trade_records) + 1, cid, d.direction,
                               size \div 100)
                      EXCEPT !.entry_price = IF d.direction = "up"
                                             THEN m.price_up ELSE m.price_down]
             placed == order = "trade" /\ Len(trade_records) < MaxTrades
             recs == IF placed THEN Append(trade_records, r) ELSE trade_records
             risk == RecordedFrom([daily |-> can.daily, total_pnl |-> total_pnl,
                                   capital |-> capital, recorded |-> recorded],
                                  ResolutionsAfter(recs, active),
                                  NewlyResolved(recs, active), 1, now)
         IN /\ IF last >= 4
               THEN /\ analyze_args' = a
                    /\ decision' = d
                    /\ trade_history' = trade_history + (IF d.appended THEN 1 ELSE 0)
               ELSE UNCHANGED <<analyze_args, decision, trade_history>>
            /\ IF last = 10
               THEN /\ daily' = risk.daily
                    /\ total_pnl' = risk.total_pnl
                    /\ capital' = risk.capital
                    /\ recorded' = risk.recorded
               ELSE /\ daily' = IF last >= 5 THEN can.daily ELSE daily
                    /\ UNCHANGED <<total_pnl, capital, recorded>>
            /\ IF last >= 5
               THEN /\ resets' = resets + ResetCount(daily, now)
                    /\ last_call' = Call("can_trade", can, 0, 0, now)
               ELSE UNCHANGED <<resets, last_call>>
            /\ active_markets' = IF last >= 6 THEN active ELSE active_markets
            /\ trade_records' = IF last = 10 THEN ResolutionsAfter(recs, active)
                                ELSE trade_records
            /\ cycle_obs' =
                  [ran |-> TRUE, steps |-> SubSeq(CycleSteps, 1, last),
                   oracle |-> oracle,
                   candles |-> IF last >= 3 THEN n ELSE -1,
                   verdict |-> IF last < 4 THEN "none"
                               ELSE IF d.should_trade THEN "trade" ELSE "hold",
                   eligible |-> IF last < 5 THEN "none"
                                ELSE IF can.ok THEN "yes" ELSE "no",
                   size |-> IF last >= 8 THEN size ELSE 0,
                   submitted |-> last = 10,
                   before |-> trade_records]
    /\ UNCHANGED <<now, arbOther, oracleVars, risk_config, date_changes,
                   mode, scan, sessions, in_entry_window, stop_requested, seen,
                   hedged_trades, hedge_enabled, trade_cycles, trade_seen,
                   hedge_call, strategy_config>>

NextCycle ==
    \/ TradingCycle
    \/ ReportResolved

SpecCycle == InitCycle /\ [][NextCycle]_vars

----------------------------------------------------------------------------
(* Claims about the arbitrage scanner, checked under SpecArb *)

Cost == config.size_per_side_usd * 2

(* a step of ExecuteArb: the only action that takes an opportunity off opps *)
ExecStep == pc = "exec" /\ opps' # opps

AtCeiling ==
    \/ daily_trades >= config.max_daily_arb_trades
    \/ daily_spent + Cost > config.max_daily_arb_budget

(* C1: the daily trade count never exceeds max_daily_arb_trades and the    *)
(* daily spend never exceeds max_daily_arb_budget; an _execute_arb call    *)
(* made with the trade count at its ceiling, or with spend + 2 x size over *)
(* the budget, attempts nothing and changes no scanner state.              *)
C1_DailyCeilings ==
    /\ [](/\ daily_trades <= config.max_daily_arb_trades
          /\ daily_spent <= config.max_daily_arb_budget)
    /\ [][(ExecStep /\ AtCeiling) =>
            UNCHANGED <<executions, cooldowns, daily_trades, daily_spent,
                        daily_profit, order_log, trade_records, known_markets,
                        expired_markets, day_start, best_edge_seen,
                        near_misses, clob_initialized>>]_vars

(* an _execute_arb call was refused at the budget ceiling with trade slots left *)
C1_Witness ==
    /\ last_exec.blocked
    /\ daily_trades < config.max_daily_arb_trades
    /\ daily_spent > 0
    /\ daily_spent + Cost > config.max_daily_arb_budget

Min3(a, b, c) == Min(a, Min(b, c))

(* the tick's detection result has been worked off *)
TickOver == pc \in {"sleep", "stopped"} /\ tick_obs.time > 0

TickAttempts == Len(executions) - tick_obs.executions

(* C2: a tick with k opportunities, T remaining trade slots and B          *)
(* remaining budget makes exactly min(k, T, B div (2 x size)) attempts, on *)
(* the first opportunities in order; every other opportunity has no        *)
(* execution record, no cooldown entry and no order from this tick, and    *)
(* the counters moved by the attempts alone.                               *)
C2_AttemptsPerTick ==
    TickOver =>
      LET k == Len(tick_obs.opps)
          T == config.max_daily_arb_trades - tick_obs.trades
          B == config.max_daily_arb_budget - tick_obs.spent
          n == Min3(k, T, B \div Cost)
      IN /\ TickAttempts = n
         /\ daily_trades = tick_obs.trades + n
         /\ daily_spent = tick_obs.spent + n * Cost
         /\ \A j \in 1..n :
               executions[tick_obs.executions + j].condition_id
                  = tick_obs.opps[j].condition_id
         /\ \A j \in (n + 1)..k :
               LET c == tick_obs.opps[j].condition_id
               IN /\ \A i \in (tick_obs.executions + 1)..Len(executions) :
                        executions[i].condition_id # c
                  /\ ~(c \in DOMAIN cooldowns /\ cooldowns[c] >= tick_obs.time)
         /\ \A o \in (tick_obs.orders + 1)..Len(order_log) :
               /\ order_log[o].execution > tick_obs.executions
               /\ order_log[o].execution <= tick_obs.executions + n

(* two opportunities, one attempt: the ceiling left the second untouched *)
C2_Witness ==
    /\ TickOver
    /\ Len(tick_obs.opps) >= 2
    /\ TickAttempts = 1

(* C3: every attempt that passes the ceiling checks, whatever its status,  *)
(* appends exactly one execution record, sets the market's cooldown to the *)
(* time of the attempt, adds 1 to the daily trade count and 2 x size to    *)
(* the daily spend; the counters go down only at a daily reset.            *)
C3_AttemptConsumes ==
    /\ [][(ExecStep /\ ~AtCeiling) =>
            /\ Len(executions') = Len(executions) + 1
            /\ executions'[Len(executions')].condition_id = Head(opps).condition_id
            /\ executions'[Len(executions')].status
                  \in {"filled", "partial", "failed", "dry_run"}
            /\ SubSeq(executions', 1, Len(executions)) = executions
            /\ Head(opps).condition_id \in DOMAIN cooldowns'
            /\ cooldowns'[Head(opps).condition_id] = now
            /\ daily_trades' = daily_trades + 1
            /\ daily_spent' = daily_spent + Cost]_vars
    /\ [][(daily_spent' < daily_spent \/ daily_trades' < daily_trades) =>
            (pc = "tick" /\ now - day_start > DAY_SECS)]_vars

(* an attempt whose first order raised has consumed its slot and budget *)
C3_Witness ==
    /\ ~last_exec.blocked
    /\ last_exec.status = "failed"
    /\ polymarket /\ ~creds_ok
    /\ daily_trades = 1
    /\ daily_spent = Cost
    /\ last_exec.condition_id \in DOMAIN cooldowns

(* C4: a detection made after an attempt on market m, less than            *)
(* cooldown_per_market_secs after the attempt's timestamp, does not return *)
(* m, and two attempts on one market are at least the cooldown apart;      *)
(* daily resets in between change nothing.                                 *)
C4_CooldownExcludes ==
    /\ \A i \in 1..Len(executions) :
          (/\ i <= tick_obs.executions
           /\ tick_obs.time - executions[i].timestamp
                 < config.cooldown_per_market_secs)
          => \A j \in DOMAIN tick_obs.opps :
                 tick_obs.opps[j].condition_id # executions[i].condition_id
    /\ \A i, j \in 1..Len(executions) :
          (i < j /\ executions[i].condition_id = executions[j].condition_id)
          => executions[j].timestamp - executions[i].timestamp
                 >= config.cooldown_per_market_secs

(* after a daily reset, a market that is live and priced as an opportunity *)
(* is left out because of an attempt made before the reset                 *)
C4_Witness ==
    \E i \in 1..Len(executions) :
       /\ i <= tick_obs.executions
       /\ executions[i].timestamp < day_start
       /\ day_start <= tick_obs.time
       /\ tick_obs.time - executions[i].timestamp < config.cooldown_per_market_secs
       /\ \E k \in DOMAIN known_markets :
             /\ known_markets[k].condition_id = executions[i].condition_id
             /\ known_markets[k].price_yes + known_markets[k].price_no > 0
             /\ known_markets[k].price_yes + known_markets[k].price_no
                   < config.arb_threshold
             /\ known_markets[k].liquidity >= config.min_liquidity_usd

(* no attempt since the last detection: the cooldown map is as detection saw it *)
JustDetected == tick_obs.time > 0 /\ Len(executions) = tick_obs.executions

LastArb(c) == IF c \in DOMAIN cooldowns THEN cooldowns[c] ELSE 0

(* C5: detection returns a market of the live table iff its combined price *)
(* is strictly between 0 and arb_threshold, its edge percent is at least   *)
(* min_edge_pct, its liquidity is at least min_liquidity_usd and it is not *)
(* inside its cooldown window.                                             *)
C5_DetectionIff ==
    JustDetected =>
      /\ \A j \in DOMAIN tick_obs.opps :
            \E k \in DOMAIN known_markets : known_markets[k] = tick_obs.opps[j]
      /\ \A k \in DOMAIN known_markets :
            LET m == known_markets[k]
                combined == m.price_yes + m.price_no
            IN (\E j \in DOMAIN tick_obs.opps : tick_obs.opps[j] = m)
               <=> /\ 0 < combined
                   /\ combined < config.arb_threshold
                   /\ 100 - combined >= config.min_edge_pct
                   /\ m.liquidity >= config.min_liquidity_usd
                   /\ ~(tick_obs.time - LastArb(m.condition_id)
                           < config.cooldown_per_market_secs)

(* one market returned, and one priced under the threshold turned down *)
C5_Witness ==
    /\ JustDetected
    /\ Len(tick_obs.opps) = 1
    /\ \E k \in DOMAIN known_markets :
          /\ known_markets[k] # tick_obs.opps[1]
          /\ known_markets[k].price_yes + known_markets[k].price_no > 0
          /\ known_markets[k].price_yes + known_markets[k].price_no
                < config.arb_threshold

(* the place_order calls made for execution record i, in order *)
CallsOf(i) == SelectSeq(order_log, LAMBDA o : o.execution = i)

Confirms(i) == Len(SelectSeq(CallsOf(i), LAMBDA o : o.result = "trade"))

(* the status of every execution record follows the confirmations *)
StatusByConfirms ==
    \A i \in 1..Len(executions) :
       LET e == executions[i] IN
       /\ (e.status = "dry_run") <=> ~polymarket
       /\ ~polymarket => CallsOf(i) = <<>>
       /\ polymarket =>
            /\ (e.status = "filled")  <=> Confirms(i) = 2
            /\ (e.status = "partial") <=> Confirms(i) = 1
            /\ (e.status = "failed")  <=> Confirms(i) = 0
       /\ (e.order_id_yes # 0) <=>
             \E o \in DOMAIN CallsOf(i) :
                CallsOf(i)[o].direction = "up" /\ CallsOf(i)[o].result = "trade"
       /\ (e.order_id_no # 0) <=>
             \E o \in DOMAIN CallsOf(i) :
                CallsOf(i)[o].direction = "down" /\ CallsOf(i)[o].result = "trade"

C23_AsClaimed == trade_records = <<>>

(* what the code does instead: both orders of a filled arbitrage were      *)
(* appended, as open trades, to the list of the client the scanner was     *)
(* given                                                                   *)
C23_ScannerAppended ==
    /\ polymarket
    /\ Len(executions) = 1
    /\ executions[1].status = "filled"
    /\ Len(trade_records) = 2
    /\ \A i \in 1..2 :
          /\ trade_records[i].market_condition_id = executions[1].condition_id
          /\ trade_records[i].outcome = "null"
    /\ trade_records[1].direction = "up"
    /\ trade_records[2].direction = "down"

(* C26: every condition id ever put into the live-market table is still a *)
(* key of the live table or of the archive, whatever discoveries,          *)
(* refreshes and prunes have run since; and the table detection ran on     *)
(* holds no market without time remaining at the time of that detection,   *)
(* so no opportunity it returned is one either.                            *)
C26_LiveOrArchived ==
    /\ merged \subseteq Ids(known_markets) \cup DOMAIN expired_markets
    /\ scan_count > 0 =>
          /\ \A i \in DOMAIN known_markets :
                TimeRemaining(known_markets[i], tick_obs.time) > 0
          /\ \A j \in DOMAIN tick_obs.opps :
                TimeRemaining(tick_obs.opps[j], tick_obs.time) > 0

(* a market that was live at one tick has run out and sits in the archive  *)
(* only, while detection ran on the markets that are left                  *)
C26_Witness ==
    /\ scan_count >= 2
    /\ known_markets # <<>>
    /\ \E c \in merged :
          /\ c \in DOMAIN expired_markets
          /\ c \notin Ids(known_markets)
          /\ TimeRemaining(expired_markets[c], tick_obs.time) = 0
          /\ \E i \in DOMAIN executions : executions[i].condition_id = c

(* one step of the loop seen from the daily window: day_start is the loop  *)
(* start or the last reset                                                 *)
ResetStep ==
    IF scan_count' = scan_count + 1
    THEN IF now' - day_start > DAY_SECS
         THEN /\ day_start' = now'
              /\ daily_trades' = 0
              /\ daily_spent' = 0
              /\ daily_profit' = 0
              /\ best_edge_seen' = BestEdgeAfter(known_markets', now', 0, config)
              /\ near_misses' = NearMissesAfter(known_markets', now', <<>>, config)
         ELSE /\ day_start' = day_start
              /\ daily_trades' = daily_trades
              /\ daily_spent' = daily_spent
              /\ daily_profit' = daily_profit
              /\ best_edge_seen' >= best_edge_seen
              /\ near_misses' = NearMissesAfter(known_markets', now',
                                                near_misses, config)
    ELSE /\ pc # "init" => day_start' = day_start
         /\ daily_trades' >= daily_trades
         /\ daily_spent' >= daily_spent
         /\ daily_profit' >= daily_profit
         /\ best_edge_seen' = best_edge_seen
         /\ near_misses' = near_misses

(* C27: a tick resets the daily counters and the telemetry, and starts a   *)
(* new window at its own time, when more than 86400 s have passed since    *)
(* the loop start or the previous reset; a tick that finds 86400 s or less *)
(* keeps the counters and the window, and no step other than a tick        *)
(* lowers a counter, clears the telemetry or moves the window.             *)
C27_RollingReset == [][ResetStep]_vars

(* a tick has reset the counters of a window in which an arbitrage filled, *)
(* after an earlier tick inside the window had kept them                   *)
C27_Witness ==
    /\ scan_count = 3
    /\ day_start = tick_obs.time
    /\ day_start - StartTime > DAY_SECS
    /\ daily_trades = 0
    /\ daily_spent = 0
    /\ \E i \in DOMAIN executions :
          /\ executions[i].status \in {"filled", "dry_run"}
          /\ executions[i].timestamp < day_start

(* C31: the executions appended in one tick are in non-increasing order of *)
(* edge percent: none follows one of a strictly smaller edge.              *)
C31_DescendingEdge ==
    \A i, j \in (tick_obs.executions + 1)..Len(executions) :
        i < j => executions[i].edge_pct >= executions[j].edge_pct

(* two attempts in one tick, the market detection found second first       *)
(* because its edge is the larger one                                      *)
C31_Witness ==
    /\ Len(executions) = tick_obs.executions + 2
    /\ executions[tick_obs.executions + 1].edge_pct
          > executions[tick_obs.executions + 2].edge_pct
    /\ executions[tick_obs.executions + 1].condition_id
          > executions[tick_obs.executions + 2].condition_id
    /\ tick_obs.opps[1].condition_id > tick_obs.opps[2].condition_id

(* a step of ScanDiscover or ScanRefresh: one tick's request and detection *)
TickStep == pc = "tick" /\ scan_count' = scan_count + 1

(* C35: when the discovery of a tick raises, the call leaves the live      *)
(* table and the archive as they were and does not move _last_discovery;   *)
(* the tick goes on to prune and to detect on the table it had.            *)
RaisedStep ==
    (TickStep /\ tick_obs'.fetch = "raised") =>
        /\ tick_obs'.kept
        /\ last_discovery' = last_discovery
        /\ known_markets' = SeqFilterLive(known_markets, now')
        /\ expired_markets' = Archive(expired_markets, known_markets, now')
        /\ opps' = SortByEdge(FindOpportunities(known_markets', now', cooldowns,
                                                config))
        /\ tick_obs'.opps = opps'

C35_RaiseKeepsTables == [][RaisedStep]_vars

(* a tick whose discovery raised found an opportunity in the table kept *)
C35_Witness ==
    /\ tick_obs.fetch = "raised"
    /\ tick_obs.kept
    /\ pc = "exec"
    /\ Len(executions) = tick_obs.executions
    /\ tick_obs.opps # <<>>
    /\ known_markets # <<>>

(* C36: a tick asks for the listing or refreshes prices, never both; it    *)
(* asks for the listing exactly when more than the discovery interval has  *)
(* passed since the last successful discovery, so that two successful      *)
(* discoveries are more than one interval apart.                           *)
FetchStep ==
    TickStep =>
        /\ tick_obs'.fetch \in {"discovered", "raised", "refreshed"}
        /\ tick_obs'.fetch \in {"discovered", "raised"}
              <=> now - last_discovery > DISCOVERY_INTERVAL
        /\ tick_obs'.fetch = "discovered" =>
              /\ last_discovery' = now
              /\ last_discovery' - last_discovery > DISCOVERY_INTERVAL
        /\ tick_obs'.fetch # "discovered" => last_discovery' = last_discovery

C36_DiscoverOrRefresh == [][FetchStep]_vars

(* a second successful discovery, with a refresh tick in between *)
C36_Witness ==
    /\ tick_obs.fetch = "discovered"
    /\ scan_count = 3
    /\ last_discovery = tick_obs.time
    /\ last_discovery = StartTime + 2 * config.poll_interval_secs
    /\ config.poll_interval_secs <= DISCOVERY_INTERVAL

(* C39: the daily spend is the daily trade count times the cost of an      *)
(* attempt, the records appended since the last daily reset are as many as *)
(* the daily trade count, and the history only grows; a daily reset leaves *)
(* the history and the cooldowns alone and takes no market out of the      *)
(* tables.                                                                 *)
SinceReset == {i \in DOMAIN executions : executions[i].timestamp >= day_start}

HistoryStep ==
    /\ Len(executions') >= Len(executions)
    /\ SubSeq(executions', 1, Len(executions)) = executions
    /\ (TickStep /\ day_start' # day_start) =>
          /\ executions' = executions
          /\ cooldowns' = cooldowns
          /\ Ids(known_markets) \subseteq Ids(known_markets') \cup Ids(expired_markets')
          /\ Ids(expired_markets) \subseteq Ids(expired_markets')

C39_Counters ==
    /\ [](/\ daily_spent = daily_trades * 2 * config.size_per_side_usd
          /\ Cardinality(SinceReset) = daily_trades)
    /\ [][HistoryStep]_vars

(* an attempt after a daily reset, with an attempt of the day before in    *)
(* the history                                                             *)
C39_Witness ==
    /\ day_start > StartTime
    /\ daily_trades = 1
    /\ daily_spent = 2 * config.size_per_side_usd
    /\ Len(executions) >= 2
    /\ executions[1].timestamp < day_start

----------------------------------------------------------------------------
(* Claims about the Risk Governor (SpecRisk).  last_call holds the last    *)
(* operation with the state it was called in; daily, capital and total_pnl *)
(* change in no other step, so they are the state that operation left.     *)

Asked == last_call.op \in {"can_trade", "get_status"}

(* the daily state of the date of the call: the stored record when its     *)
(* date is that date, a fresh one when the date has changed since          *)
SeenToday ==
    IF last_call.seen.date = Today(last_call.time)
    THEN last_call.seen
    ELSE [date |-> Today(last_call.time), trades |-> 0, wins |-> 0,
          losses |-> 0, total_pnl |-> 0, consecutive_losses |-> 0,
          last_trade_time |-> 0, cooldown_until |-> 0]

InsideCooldown == last_call.time < SeenToday.cooldown_until
AtTradeCap == SeenToday.trades >= risk_config.max_daily_trades
AtLossCap ==
    /\ last_call.seen_capital > 0
    /\ (IF SeenToday.total_pnl < 0 THEN 0 - SeenToday.total_pnl ELSE 0) * 100
         >= risk_config.max_daily_loss_pct * last_call.seen_capital
AtStreakCap ==
    SeenToday.consecutive_losses >= risk_config.max_consecutive_losses
NoCapital == last_call.seen_capital <= 0

(* C7, as claimed: once the loss-streak cooldown has been armed and its    *)
(* time has expired on the same date, with the trade cap, the loss cap and *)
(* the capital check all clear, can_trade answers eligible.                *)
C7_AsClaimed ==
    ( /\ Asked
      /\ last_call.seen.date = Today(last_call.time)
      /\ last_call.seen.cooldown_until > 0
      /\ last_call.time >= last_call.seen.cooldown_until
      /\ ~AtTradeCap /\ ~AtLossCap /\ ~NoCapital )
    => last_call.ok

(* what the code does instead: the expired cooldown is armed again *)
C7_Rearmed ==
    /\ Asked
    /\ last_call.seen.date = Today(last_call.time)
    /\ last_call.seen.cooldown_until > 0
    /\ last_call.time >= last_call.seen.cooldown_until
    /\ ~AtTradeCap /\ ~AtLossCap /\ ~NoCapital
    /\ ~last_call.ok
    /\ last_call.reason = "Loss streak"
    /\ daily.cooldown_until > last_call.time

(* C8: can_trade answers eligible iff none of the five conditions holds    *)
(* (inside the cooldown, trade count at the cap, daily loss percent at the *)
(* cap, loss streak at the cap, capital <= 0), and an ineligible answer    *)
(* carries the reason of the first condition, in that order, that holds.   *)
C8_Eligibility ==
    Asked =>
        /\ last_call.ok <=> ~(InsideCooldown \/ AtTradeCap \/ AtLossCap
                               \/ AtStreakCap \/ NoCapital)
        /\ last_call.reason =
              (IF InsideCooldown THEN "Cooldown"
               ELSE IF AtTradeCap THEN "Daily limit"
               ELSE IF AtLossCap THEN "Daily loss limit"
               ELSE IF AtStreakCap THEN "Loss streak"
               ELSE IF NoCapital THEN "No capital"
               ELSE "OK")

(* a refusal for the trade cap while the streak is at its cap as well *)
C8_Witness ==
    /\ last_call.op = "can_trade"
    /\ last_call.reason = "Daily limit"
    /\ AtStreakCap
    /\ ~InsideCooldown

(* C9: no operation increases capital; record_trade leaves it alone for    *)
(* pnl >= 0 and lowers it by exactly |pnl| for pnl < 0, and adds every     *)
(* outcome, win or loss, to the daily and the lifetime P&L.                *)
C9_CapitalNeverIncreases ==
    /\ last_call.op # "none" => capital <= last_call.seen_capital
    /\ last_call.op \in {"can_trade", "get_status", "calculate_position_size"}
         => capital = last_call.seen_capital /\ total_pnl = last_call.seen_total
    /\ last_call.op = "record_trade" =>
         /\ last_call.pnl >= 0 => capital = last_call.seen_capital
         /\ last_call.pnl < 0 =>
                capital = last_call.seen_capital - (0 - last_call.pnl)
         /\ total_pnl = last_call.seen_total + last_call.pnl
         /\ daily.total_pnl = SeenToday.total_pnl + last_call.pnl

(* a win recorded after a loss: the totals rise, capital stays reduced *)
C9_Witness ==
    /\ last_call.op = "record_trade"
    /\ last_call.pnl > 0
    /\ last_call.seen_total < 0
    /\ capital = last_call.seen_capital
    /\ total_pnl > last_call.seen_total

Resetting == {"can_trade", "record_trade", "get_status"}

(* the last operation replaced the daily record by a fresh one *)
JustReset ==
    /\ last_call.op # "none"
    /\ daily.date # last_call.seen.date

(* C10, as claimed: once any governor operation has run on the current     *)
(* date, the record is of that date and there has been exactly one reset   *)
(* for each date change; no operation resets while the date is unchanged.  *)
C10_AsClaimed ==
    /\ (last_call.op # "none" /\ last_call.time = now) =>
            /\ daily.date = Today(now)
            /\ resets = date_changes
    /\ JustReset => last_call.seen.date # Today(last_call.time)

(* C10, amended: at most one reset for each date change; the reset is made *)
(* by the first can_trade, record_trade or get_status call on a date other *)
(* than the stored one, never by calculate_position_size, and never while  *)
(* the stored date is the current date.                                    *)
C10_DailyReset ==
    /\ resets <= date_changes
    /\ (last_call.op \in Resetting /\ last_call.time = now) =>
            daily.date = Today(now)
    /\ (last_call.op \in Resetting
          /\ last_call.seen.date # Today(last_call.time)) => JustReset
    /\ JustReset =>
            /\ last_call.op \in Resetting
            /\ last_call.seen.date # Today(last_call.time)
            /\ daily.date = Today(last_call.time)
    /\ last_call.op = "calculate_position_size" => daily = last_call.seen

(* two date changes passed before the first resetting call: one reset,    *)
(* of a record that held trades                                            *)
C10_Witness ==
    /\ JustReset
    /\ date_changes = 2
    /\ resets = 1
    /\ last_call.seen.trades > 0

(* the last operation ran on a date other than the stored one *)
RolledOver ==
    /\ last_call.op \in Resetting
    /\ last_call.seen.date # Today(last_call.time)

(* C11: a date rollover puts the daily trade, win and loss counts, the     *)
(* daily P&L, the loss streak and cooldown_until back to zero (a           *)
(* record_trade that meets the rollover then counts its one outcome from   *)
(* zero), and the reset itself leaves capital and lifetime P&L alone:      *)
(* they change by the recorded outcome only.                               *)
C11_RolloverResets ==
    RolledOver =>
        /\ daily.date = Today(last_call.time)
        /\ daily.cooldown_until = 0
        /\ last_call.op \in {"can_trade", "get_status"} =>
              /\ daily.trades = 0 /\ daily.wins = 0 /\ daily.losses = 0
              /\ daily.total_pnl = 0 /\ daily.consecutive_losses = 0
              /\ capital = last_call.seen_capital
              /\ total_pnl = last_call.seen_total
        /\ last_call.op = "record_trade" =>
              /\ daily.trades = 1
              /\ daily.wins = (IF last_call.pnl >= 0 THEN 1 ELSE 0)
              /\ daily.losses = (IF last_call.pnl >= 0 THEN 0 ELSE 1)
              /\ daily.total_pnl = last_call.pnl
              /\ daily.consecutive_losses = (IF last_call.pnl >= 0 THEN 0 ELSE 1)
              /\ capital = last_call.seen_capital
                              + (IF last_call.pnl >= 0 THEN 0 ELSE last_call.pnl)
              /\ total_pnl = last_call.seen_total + last_call.pnl

(* a can_trade on the new date, after a day that ended inside a cooldown   *)
(* with losses booked against capital                                      *)
C11_Witness ==
    /\ RolledOver
    /\ last_call.op = "can_trade"
    /\ last_call.seen.trades > 0
    /\ last_call.seen.losses > 0
    /\ last_call.seen.consecutive_losses > 0
    /\ last_call.seen.cooldown_until > 0
    /\ last_call.seen.total_pnl < 0
    /\ last_call.seen_total < 0
    /\ daily = [date |-> Today(now), trades |-> 0, wins |-> 0, losses |-> 0,
                total_pnl |-> 0, consecutive_losses |-> 0,
                last_trade_time |-> 0, cooldown_until |-> 0]

(* C12: record_trade with pnl >= 0, zero included, sets the loss streak to *)
(* 0 and counts a win; with pnl < 0 it raises the streak by exactly 1 and  *)
(* counts a loss; either way the daily trade count rises by exactly 1.     *)
(* The counts are those of the date of the call.                           *)
C12_StreakAndCounts ==
    last_call.op = "record_trade" =>
        /\ daily.trades = SeenToday.trades + 1
        /\ last_call.pnl >= 0 =>
              /\ daily.consecutive_losses = 0
              /\ daily.wins = SeenToday.wins + 1
              /\ daily.losses = SeenToday.losses
        /\ last_call.pnl < 0 =>
              /\ daily.consecutive_losses = SeenToday.consecutive_losses + 1
              /\ daily.losses = SeenToday.losses + 1
              /\ daily.wins = SeenToday.wins

(* a zero outcome ends a running streak *)
C12_Witness ==
    /\ last_call.op = "record_trade"
    /\ last_call.pnl = 0
    /\ SeenToday.consecutive_losses > 0
    /\ daily.consecutive_losses = 0
    /\ daily.wins = SeenToday.wins + 1

Sized == last_call.op = "calculate_position_size"

(* C13, as claimed: the position size is 0 for every confidence <= 0.5,    *)
(* whatever the capital and the configuration.                             *)
C13_AsClaimed ==
    (Sized /\ last_call.confidence <= 50) => last_call.size = 0

(* what the code returns instead: the minimum trade size, or the capital   *)
(* when that is smaller                                                    *)
C13_MinimumBet ==
    /\ Sized
    /\ last_call.confidence <= 50
    /\ last_call.seen_capital > 0
    /\ last_call.size = Min(risk_config.min_trade_size_usd * 100,
                            last_call.seen_capital * 100)

(* C14, as claimed: for fixed capital and configuration the size is        *)
(* strictly increasing in confidence above 0.5.                            *)
C14_AsClaimed ==
    Sized =>
        \A c \in Confidences :
            (c > 50 /\ c < last_call.confidence) =>
                CalculatePositionSize(last_call.seen_capital, c, risk_config)
                    < last_call.size

(* C14, amended: for fixed capital and configuration the size never        *)
(* decreases as confidence rises, over all confidences; it stays level     *)
(* where a clamp binds.                                                    *)
C14_NonDecreasing ==
    Sized =>
        \A c \in Confidences :
            c < last_call.confidence =>
                CalculatePositionSize(last_call.seen_capital, c, risk_config)
                    <= last_call.size

(* the size at 0.90 is above the size at 0.55 and level with the one at    *)
(* 0.60, where the percent-of-capital clamp already binds                  *)
C14_Witness ==
    /\ Sized
    /\ last_call.confidence = 90
    /\ CalculatePositionSize(last_call.seen_capital, 55, risk_config)
          < last_call.size
    /\ CalculatePositionSize(last_call.seen_capital, 60, risk_config)
          = last_call.size

(* C15, as claimed: a returned size is within [min_trade_size_usd,         *)
(* max_trade_size_usd], at most max_trade_pct percent of capital and at    *)
(* most capital; with capital <= 0 it is 0.  Sizes are in cents.           *)
C15_AsClaimed ==
    Sized =>
        IF last_call.seen_capital <= 0
        THEN last_call.size = 0
        ELSE /\ last_call.size >= risk_config.min_trade_size_usd * 100
             /\ last_call.size <= risk_config.max_trade_size_usd * 100
             /\ last_call.size
                   <= last_call.seen_capital * risk_config.max_trade_pct
             /\ last_call.size <= last_call.seen_capital * 100

(* what the code returns instead: the minimum trade size, above the        *)
(* percent-of-capital limit                                                *)
C15_OverPercent ==
    /\ Sized
    /\ last_call.confidence > 50
    /\ last_call.seen_capital > 0
    /\ last_call.size = risk_config.min_trade_size_usd * 100
    /\ last_call.size > last_call.seen_capital * risk_config.max_trade_pct

(* a can_trade or get_status call on the date of the stored record that    *)
(* found the loss streak at the cap and no cooldown window open            *)
StreakSeen ==
    /\ Asked
    /\ last_call.seen.date = Today(last_call.time)
    /\ last_call.seen.consecutive_losses >= risk_config.max_consecutive_losses
    /\ ~(last_call.time < last_call.seen.cooldown_until)

ArmedAt(t) == t + risk_config.loss_streak_cooldown_mins * 60

(* C32, as claimed: a call that finds the streak at the cap answers        *)
(* ineligible and leaves cooldown_until at now + the cooldown duration.    *)
C32_AsClaimed ==
    StreakSeen =>
        /\ ~last_call.ok
        /\ daily.cooldown_until = ArmedAt(last_call.time)

(* C32: a call that finds the streak at the cap answers ineligible; it     *)
(* arms the cooldown, with the loss-streak reason, when neither the trade  *)
(* cap nor the loss cap is reached, and leaves cooldown_until alone when   *)
(* one of them is; a call inside an armed window reports the cooldown.     *)
C32_ArmsUnlessCapped ==
    /\ StreakSeen =>
          /\ ~last_call.ok
          /\ (~AtTradeCap /\ ~AtLossCap) =>
                /\ last_call.reason = "Loss streak"
                /\ daily.cooldown_until = ArmedAt(last_call.time)
          /\ (AtTradeCap \/ AtLossCap) =>
                /\ last_call.reason \in {"Daily limit", "Daily loss limit"}
                /\ daily.cooldown_until = last_call.seen.cooldown_until
    /\ ( /\ Asked
         /\ last_call.seen.date = Today(last_call.time)
         /\ last_call.time < last_call.seen.cooldown_until )
       => (~last_call.ok /\ last_call.reason = "Cooldown")

(* the first call after the losses arms a cooldown that was never armed *)
C32_Witness ==
    /\ StreakSeen
    /\ last_call.op = "can_trade"
    /\ last_call.seen.cooldown_until = 0
    /\ last_call.seen.losses = risk_config.max_consecutive_losses
    /\ last_call.reason = "Loss streak"
    /\ daily.cooldown_until = ArmedAt(last_call.time)

(* the streak is at the cap and so is the trade count: the call reports    *)
(* the daily limit and no cooldown is armed                                *)
C32_NotArmed ==
    /\ StreakSeen
    /\ AtTradeCap
    /\ last_call.reason = "Daily limit"
    /\ daily.cooldown_until = 0

(* C38: a can_trade or get_status call on the date of the stored record    *)
(* and before its cooldown_until answers ineligible with the cooldown      *)
(* reason and leaves the daily record, cooldown_until included, the        *)
(* capital and the total P&L as they were.                                 *)
C38_PollingKeepsCooldown ==
    ( /\ Asked
      /\ last_call.seen.date = Today(last_call.time)
      /\ last_call.time < last_call.seen.cooldown_until )
    => /\ ~last_call.ok
       /\ last_call.reason = "Cooldown"
       /\ daily = last_call.seen
       /\ capital = last_call.seen_capital
       /\ total_pnl = last_call.seen_total

(* get_status asked inside an armed window *)
C38_Witness ==
    /\ last_call.op = "get_status"
    /\ last_call.seen.date = Today(last_call.time)
    /\ last_call.time < last_call.seen.cooldown_until
    /\ last_call.reason = "Cooldown"
    /\ daily.cooldown_until = last_call.seen.cooldown_until

----------------------------------------------------------------------------
(* Claims about the oracle (SpecOracle).  captures holds each task's       *)
(* capture_window_open call; last_get holds the last get_price with what   *)
(* it read and the cache and history it started from.                      *)

Returned(p) == captures[p].pc = "returned"

SameWindow(t1, t2) == t1 \div WINDOW_SECS = t2 \div WINDOW_SECS

BeganAfterStore(p, q) ==
    /\ Returned(p)
    /\ captures[q].pc # "idle"
    /\ captures[p].order < captures[q].order
    /\ captures[q].made_before >= 1
    /\ <<anchors_made[captures[q].made_before]>> = captures[p].result

C17_AsClaimed ==
    \A i, j \in 1..Len(anchors_made) :
        i < j => anchors_made[i].boundary_time # anchors_made[j].boundary_time

(* what the code does instead: a second anchor, with another open price,   *)
(* replaces the stored anchor of the same boundary                         *)
C17_Replaced ==
    /\ Len(anchors_made) = 2
    /\ anchors_made[1].boundary_time = anchors_made[2].boundary_time
    /\ anchors_made[1].open_price # anchors_made[2].open_price
    /\ window_anchor = <<anchors_made[2]>>

GotPrice == last_get.consensus # <<>>

(* the fresh readings among the results of the last get_price *)
FreshResults ==
    {i \in 1..Len(last_get.results) :
        last_get.time - last_get.results[i].timestamp
            <= oracle_config.max_price_age}

FreshChainlink ==
    {i \in FreshResults : last_get.results[i].source = "chainlink"}

Contributing(source_test(_)) ==
    SelectSeq(last_get.valid, LAMBDA pp : source_test(pp.source))

IsChainlink(source) == source = "chainlink"
IsOther(source) == source # "chainlink"

(* C18, as claimed: the consensus price is the fresh chainlink reading's   *)
(* price when there is one and the median of the contributing prices       *)
(* otherwise, and it is never a blend: when a chainlink reading            *)
(* contributes, the price is that reading's price or the median of the     *)
(* other prices alone.                                                     *)
C18_AsClaimed ==
    GotPrice =>
        LET price == last_get.consensus[1].price
        IN /\ \A i \in FreshChainlink : price = last_get.results[i].price
           /\ FreshChainlink = {} => price = Median(Prices(last_get.valid))
           /\ \A i \in 1..Len(last_get.valid) :
                 last_get.valid[i].source = "chainlink" =>
                     \/ price = last_get.valid[i].price
                     \/ /\ Contributing(IsOther) # <<>>
                        /\ price = Median(Prices(Contributing(IsOther)))

(* what the code does instead: a cached chainlink reading is averaged with *)
(* a fresh reading of another feed                                         *)
C18_Blend ==
    /\ GotPrice
    /\ FreshChainlink = {}
    /\ Len(last_get.valid) = 2
    /\ Len(Contributing(IsChainlink)) = 1
    /\ last_get.consensus[1].price # last_get.valid[1].price
    /\ last_get.consensus[1].price # last_get.valid[2].price
    /\ 2 * last_get.consensus[1].price
          = last_get.valid[1].price + last_get.valid[2].price

PriceAsked == last_get.time # 0

(* the cached readings inside the looser bound when the last get_price     *)
(* read its results                                                        *)
UsableCache ==
    {i \in 1..Len(last_get.cache_before) :
        last_get.time - last_get.cache_before[i].timestamp <= CACHE_MAX_AGE}

(* C19: get_price fails iff no feed returned a non-stale reading and no    *)
(* cached reading inside the looser bound exists; a failed call produces   *)
(* no ConsensusPrice and leaves the history as it was, a successful one    *)
(* appends exactly one.                                                    *)
C19_ExhaustedIff ==
    PriceAsked =>
        /\ last_get.raised <=> (FreshResults = {} /\ UsableCache = {})
        /\ last_get.raised =>
              /\ last_get.consensus = <<>>
              /\ price_history = last_get.history_before
        /\ ~last_get.raised =>
              /\ Len(last_get.consensus) = 1
              /\ price_history
                    = Append(last_get.history_before, last_get.consensus[1])

(* a failure after an earlier success: a feed answered, but stale, and the *)
(* cache has aged out                                                      *)
C19_Witness ==
    /\ PriceAsked
    /\ last_get.raised
    /\ last_get.results # <<>>
    /\ last_get.cache_before # <<>>
    /\ Len(price_history) = 1

(* C20: a reading older than max_price_age is not taken as a reading of    *)
(* this call and is not stored in the cache by it; a contributing reading  *)
(* is a fresh reading of this call or, only when fewer than                *)
(* min_oracle_consensus fresh readings remain, a reading the cache held    *)
(* before the call; none is older than the looser cache bound.             *)
C20_StalenessFilter ==
    PriceAsked =>
        LET fresh  == {last_get.results[i] : i \in FreshResults}
            before == {last_get.cache_before[i] :
                          i \in 1..Len(last_get.cache_before)}
        IN /\ \A i \in 1..Len(last_get.valid) :
                 LET v == last_get.valid[i]
                 IN /\ \/ v \in fresh
                       \/ /\ Cardinality(fresh) < oracle_config.min_oracle_consensus
                          /\ v \in before
                    /\ last_get.time - v.timestamp <= CACHE_MAX_AGE
           /\ \A v \in fresh : InSeq(v, last_get.valid)
           /\ \A i \in 1..Len(last_prices) :
                 last_prices[i] \in fresh \cup before

(* a stale chainlink reading is dropped while the chainlink reading cached *)
(* by an earlier call fills in for the missing second fresh reading        *)
C20_Witness ==
    /\ PriceAsked
    /\ \E i \in 1..Len(last_get.results) :
          /\ i \notin FreshResults
          /\ ~InSeq(last_get.results[i], last_get.valid)
          /\ ~InSeq(last_get.results[i], last_prices)
    /\ \E i \in 1..Len(last_get.valid) :
          /\ last_get.valid[i].source = "chainlink"
          /\ InSeq(last_get.valid[i], last_get.cache_before)
    /\ FreshResults # {}

(* C21: get_price returns a consensus whenever at least one feed yields a  *)
(* fresh reading, whatever the other feeds do (fail, time out, raise, or   *)
(* answer stale) and whatever the cache holds: the call does not fail, it  *)
(* builds one ConsensusPrice with a positive price that it appends to the  *)
(* history, and every fresh reading is among its sources.                  *)
C21_FeedFailureIsolated ==
    (PriceAsked /\ FreshResults # {}) =>
        /\ ~last_get.raised
        /\ Len(last_get.consensus) = 1
        /\ last_get.consensus[1].price > 0
        /\ \A i \in FreshResults :
              InSeq(last_get.results[i].source, last_get.consensus[1].sources)
        /\ price_history
              = Append(last_get.history_before, last_get.consensus[1])

(* one feed answered and the two others gave nothing, with nothing cached: *)
(* the call returned a consensus of that one reading                       *)
C21_Witness ==
    /\ PriceAsked
    /\ Len(last_get.results) = 1
    /\ FreshResults # {}
    /\ last_get.cache_before = <<>>
    /\ ~last_get.raised
    /\ Len(last_get.consensus[1].sources) = 1

----------------------------------------------------------------------------
(* Claims about the two loops and shutdown, checked under SpecBot *)

(* C22: an error raised inside a scan tick or inside a directional cycle   *)
(* (oracle exhaustion included) is caught at that loop's boundary: the     *)
(* step that raises takes the owning loop to its sleep with its running    *)
(* flag as it was and leaves the other loop as it was; from the sleep the  *)
(* loop goes to its loop test, and the test of a running loop starts the   *)
(* next tick (the next cycle once the clock is in an untraded entry        *)
(* window), unless the process exits first.                                *)
C22_ErrorsCaught ==
    [][/\ (scan.ended # "error" /\ scan'.ended = "error") =>
             /\ scan'.pc = "sleep"
             /\ scan'.running = scan.running
             /\ main' = main
       /\ (main.ended # "error" /\ main'.ended = "error") =>
             /\ main'.pc = "sleep"
             /\ main'.running = main.running
             /\ scan' = scan
       /\ (scan.pc = "sleep" /\ scan'.pc # "sleep") =>
             scan'.pc \in {"loop", "cancelled"}
       /\ (scan.pc = "loop" /\ scan.running /\ scan'.pc # "loop") =>
             scan'.pc \in {"tick", "cancelled"}
       /\ (main.pc = "sleep" /\ main'.pc # "sleep") =>
             main'.pc \in {"poll", "keepalive"}
       /\ (main.pc = "poll" /\ main.running /\ main'.pc # "poll") =>
             main'.pc = IF in_entry_window /\ ~main.traded_this_window
                        THEN "cycle" ELSE "sleep"
      ]_vars

(* both loops have had a tick end in an error (the cycle's in its oracle   *)
(* calls) and are in a later tick                                          *)
C22_Witness ==
    /\ mode = "directional_arb"
    /\ scan.recovered
    /\ scan.pc = "tick"
    /\ main.recovered
    /\ main.failed = "oracle"
    /\ main.pc = "cycle"
    /\ main.running

(* C25, as claimed: after the stop request no scan tick and no directional *)
(* cycle starts, no tick in flight is torn down, no session is closed      *)
(* while a tick is in flight, and no session is open when the process has  *)
(* exited.                                                                 *)
C25_AsClaimed ==
    /\ ~seen.tick_after_stop
    /\ ~seen.cycle_after_stop
    /\ ~seen.torn
    /\ ~seen.closed_in_flight
    /\ main.pc = "exited" =>
          \A s \in DOMAIN sessions : sessions[s] # "open"

(* what the code does instead: with the scanner as a task, a scan tick     *)
(* starts after the stop request, the oracle's and the order client's      *)
(* sessions are closed while a tick is in flight, the tick is cancelled at *)
(* its await when main returns, and the scanner's session is left open     *)
C25_TornDown ==
    /\ mode = "directional_arb"
    /\ main.pc = "exited"
    /\ scan.pc = "cancelled"
    /\ seen.tick_after_stop
    /\ seen.closed_in_flight
    /\ seen.torn
    /\ sessions["scanner"] = "open"
    /\ sessions["oracle"] = "closed"
    /\ sessions["polymarket"] = "closed"

(* C40: the directional loop runs at most one cycle per entry window: no   *)
(* cycle starts at a poll outside the window, and after a cycle none       *)
(* starts before a poll has seen the clock outside the window.             *)
C40_OneCyclePerWindow ==
    /\ seen.window_cycles <= 1
    /\ ~seen.outside_start
    /\ ~seen.unreset_start

(* the second cycle of a run starts, in a later window than the first *)
C40_Witness ==
    /\ main.pc = "cycle"
    /\ main.cycle_count = 2
    /\ seen.window_cycles = 1
    /\ in_entry_window

----------------------------------------------------------------------------
(* Claims about the trade records, checked under SpecTrades *)

(* the trade of a hedge action was open and not marked hedged when         *)
(* check_hedge ran                                                         *)
EmittedForOpen(h) ==
    /\ h.original_trade_id \notin hedged_trades
    /\ IF trade_seen.aborted
       THEN trade_records[h.original_trade_id].outcome = "null"
       ELSE trade_seen.before[h.original_trade_id].outcome = "null"

C37_AsClaimed == ~trade_seen.aborted

(* what the code does instead: the first cycle that acts on the hedge of a *)
(* position ends in the AttributeError before any order is submitted; the  *)
(* position is not marked and the cycle has no directional order           *)
C37_CycleLost ==
    /\ hedge_enabled
    /\ trade_seen.aborted
    /\ \E i \in 1..Len(trade_records) :
          /\ trade_seen.acted[i] = 1
          /\ i \notin hedged_trades
          /\ trade_records[i].outcome = "null"
          /\ \E k \in 1..Len(trade_seen.emitted) :
                /\ trade_seen.emitted[k].original_trade_id = i
                /\ trade_seen.emitted[k].size_usd = trade_records[i].size_usd
                /\ trade_seen.emitted[k].hedge_direction # trade_records[i].direction

(* C28: a TradeRecord's outcome changes only from null to win or loss, at  *)
(* most once, and only in a resolution check that finds its market         *)
(* reported resolved (win iff the trade's direction is the resolution);    *)
(* over any sequence of resolution checks each trade is returned as newly  *)
(* resolved at most once, exactly when its outcome is set, and its P&L is  *)
(* passed to the Risk Governor as often as it is returned.                 *)
C28_OutcomeOnce ==
    /\ Len(trade_seen.before) = Len(trade_records)
    /\ Len(trade_seen.returned) = Len(trade_records)
    /\ \A i \in 1..Len(trade_records) :
          LET r == trade_records[i]
              b == trade_seen.before[i]
              m == trade_seen.active_at[r.market_condition_id]
          IN /\ trade_seen.returned[i] <= 1
             /\ trade_seen.passed[i] = trade_seen.returned[i]
             /\ r.outcome \in {"null", "win", "loss"}
             /\ (r.outcome = "null") <=> (trade_seen.returned[i] = 0)
             /\ r.outcome = "null" => r.pnl = 0
             /\ r # b =>
                   /\ b.outcome = "null"
                   /\ r.outcome \in {"win", "loss"}
                   /\ m.known /\ m.resolved
                   /\ (r.outcome = "win") <=> (r.direction = m.resolution)
                   /\ r = [b EXCEPT !.outcome = r.outcome, !.pnl = r.pnl]

(* a trade was resolved as a win by one check, and a later check, with the *)
(* market still reported resolved, left it as it was                       *)
C28_Witness ==
    \E i \in 1..Len(trade_records) :
        /\ trade_records[i].outcome = "win"
        /\ trade_records[i].pnl > 0
        /\ trade_seen.returned[i] = 1
        /\ trade_seen.passed[i] = 1
        /\ trade_records[i] = trade_seen.before[i]
        /\ trade_seen.active_at[trade_records[i].market_condition_id].resolved

(* the conditions under which the trade at index i gets a hedge action *)
HedgeDue(i) ==
    LET r == hedge_call.records[i]
    IN /\ hedge_enabled
       /\ r.outcome = "null"
       /\ r.trade_id \notin hedge_call.hedged
       /\ r.direction # hedge_call.direction
       /\ hedge_call.confidence >= HEDGE_MIN_CONF
       /\ hedge_call.markets[r.market_condition_id].known

(* C33: check_hedge returns an action for a trade iff hedging is enabled,  *)
(* the trade is unresolved and not marked, the signal's direction is not   *)
(* the trade's, the confidence is at least hedge_min_confidence and the    *)
(* trade's market is known, one action per such trade; the action is for   *)
(* the opposite side at its current price, with the trade's size and       *)
(* locked result (1 - (entry + that price)) x size, here in cents; and     *)
(* the set of marked trades is as it was before the call.                  *)
C33_HedgeIff ==
    hedge_call.called =>
       /\ \A i \in 1..Len(hedge_call.records) :
             HedgeDue(i) <=>
                \E k \in 1..Len(hedge_call.returned) :
                   hedge_call.returned[k].original_trade_id
                      = hedge_call.records[i].trade_id
       /\ Len(hedge_call.returned)
             = Cardinality({i \in 1..Len(hedge_call.records) : HedgeDue(i)})
       /\ \A k \in 1..Len(hedge_call.returned) :
             LET h == hedge_call.returned[k]
                 r == hedge_call.records[h.original_trade_id]
                 m == hedge_call.markets[r.market_condition_id]
                 opposite == IF r.direction = "up" THEN m.price_down
                             ELSE m.price_up
             IN /\ h.hedge_direction # r.direction
                /\ h.hedge_direction \in {"up", "down"}
                /\ h.hedge_price = opposite
                /\ h.size_usd = r.size_usd
                /\ h.locked_profit
                      = (100 - (r.entry_price + opposite)) * r.size_usd
       /\ hedged_trades = hedge_call.hedged

(* two open trades against the signal, one of them marked hedged: the      *)
(* call returns the action of the other one only, which locks in a loss    *)
C33_Witness ==
    /\ hedge_call.called
    /\ hedge_call.confidence = HEDGE_MIN_CONF
    /\ Len(hedge_call.returned) = 1
    /\ hedge_call.returned[1].original_trade_id = 1
    /\ hedge_call.returned[1].locked_profit < 0
    /\ 2 \in hedged_trades
    /\ hedge_call.records[2].outcome = "null"
    /\ hedge_call.records[2].direction # hedge_call.direction

----------------------------------------------------------------------------
(* Claims about the strategy engine, checked under SpecStrategy *)

Analyzed == decision.reason # "none"

Aggregated == decision.reason \in {"edge_below_fee", "scores"}

UpScore ==
    Score(analyze_args.signals,
          Weights(strategy_config, analyze_args.anchored), "up")

DownScore ==
    Score(analyze_args.signals,
          Weights(strategy_config, analyze_args.anchored), "down")

(* C29: when analyze got as far as the aggregation, equal and non-zero up  *)
(* and down scores give the direction down, and two zero scores give the   *)
(* direction hold with confidence 0 and no trade.                          *)
C29_TieIsDown ==
    Aggregated =>
       /\ (UpScore = DownScore /\ UpScore > 0) => decision.direction = "down"
       /\ (UpScore = 0 /\ DownScore = 0) =>
             /\ decision.direction = "hold"
             /\ decision.confidence.num = 0
             /\ ~decision.should_trade

(* equal non-zero buckets that pass the fee check: the decision is down *)
C29_Witness ==
    /\ decision.reason = "scores"
    /\ UpScore = DownScore
    /\ UpScore > 0
    /\ decision.direction = "down"

(* C30: a decision to trade was given at least 30 candles and a volatility *)
(* inside [min, max], has an edge not below the fee estimate, a direction  *)
(* up or down and a confidence of at least the threshold; too few candles, *)
(* then a volatility outside the band, then an edge below the fee are each *)
(* reported as the reason when no earlier guard tripped; and a decision    *)
(* not to trade suggests size 0.                                           *)
C30_GuardsInOrder ==
    Analyzed =>
       LET few   == analyze_args.candles < MIN_CANDLES
           quiet == analyze_args.volatility < strategy_config.min_volatility_pct
           wild  == analyze_args.volatility > strategy_config.max_volatility_pct
           thin  == /\ RawEdgeBelowFee(decision.confidence)
                    /\ decision.direction # "hold"
       IN /\ decision.should_trade =>
                /\ ~few /\ ~quiet /\ ~wild
                /\ ~RawEdgeBelowFee(decision.confidence)
                /\ decision.direction \in {"up", "down"}
                /\ AtLeast(decision.confidence,
                           strategy_config.confidence_threshold, 1000)
          /\ few => decision.reason = "insufficient_data"
          /\ (~few /\ quiet) => decision.reason = "volatility_too_low"
          /\ (~few /\ wild) => decision.reason = "volatility_too_high"
          /\ (~few /\ ~quiet /\ ~wild /\ thin) => decision.reason = "edge_below_fee"
          /\ (~few /\ ~quiet /\ ~wild /\ ~thin) => decision.reason = "scores"
          /\ ~decision.should_trade => decision.position_size_pct.num = 0

(* a decision to trade, with exactly 30 candles and the volatility on the  *)
(* floor                                                                   *)
C30_Witness ==
    /\ decision.should_trade
    /\ analyze_args.candles = MIN_CANDLES
    /\ analyze_args.volatility = strategy_config.min_volatility_pct
    /\ decision.position_size_pct.num > 0

----------------------------------------------------------------------------
(* Claims about the directional cycle, checked under SpecCycle *)

(* C34: a cycle submits a directional order only after, in this order, the *)
(* oracle gave a consensus, at least 30 candles came back, the strategy    *)
(* said trade, the Risk Governor said eligible and the size was positive;  *)
(* a hold verdict, an ineligible risk state or a failed candle fetch ends  *)
(* the cycle with no order and the trade records as they were.             *)
C34_OrderAfterGates ==
    /\ cycle_obs.submitted =>
          /\ SubSeq(cycle_obs.steps, 1, 9) =
                <<"anchor", "price", "candles", "strategy", "risk", "markets",
                  "hedge", "size", "order">>
          /\ cycle_obs.oracle = "consensus"
          /\ cycle_obs.candles >= 30
          /\ cycle_obs.verdict = "trade"
          /\ cycle_obs.eligible = "yes"
          /\ cycle_obs.size > 0
    /\ (\/ cycle_obs.verdict = "hold"
        \/ cycle_obs.eligible = "no"
        \/ cycle_obs.candles = 0) =>
          /\ ~cycle_obs.submitted
          /\ trade_records = cycle_obs.before

(* a cycle that placed its directional order *)
C34_Witness ==
    /\ cycle_obs.submitted
    /\ Len(trade_records) = Len(cycle_obs.before) + 1
    /\ trade_records[Len(trade_records)].direction = decision.direction

(* a cycle the Risk Governor stopped *)
C34_Stopped ==
    /\ cycle_obs.eligible = "no"
    /\ cycle_obs.steps = SubSeq(CycleSteps, 1, 5)

====
